---------------------------- MODULE Spec2Model ----------------------------
(***************************************************************************)
(* A model of the resume parser's extraction core: the section segmenter   *)
(* (helpers/section_segmentation.py), the schema assembler                 *)
(* (helpers/field_extraction.py), the candidate scorer and selector        *)
(* (helpers/semantic_extraction.py) and the normalizer                     *)
(* (helpers/normalization.py).                                             *)
(*                                                                         *)
(* Text is modelled at character level: a Python str is a sequence of      *)
(* one-character strings, and every regular expression of the source is a  *)
(* value of a small regex algebra interpreted by ReMatch, a backtracking   *)
(* matcher with Python's priority order (greedy quantifiers, ordered       *)
(* alternation).  JSON values are tagged records (JStr, JNum, JNull,       *)
(* JList, JDict).                                                          *)
(***************************************************************************)
EXTENDS Integers, Sequences, FiniteSets, TLC

VARIABLES
    \* --- pipeline: split_into_sections, assemble_full_schema,
    \*     normalize_schema on one document
    ppc,        \* "call" | "text" | "split" | "assembled" | "normalized"
                \* | "scored" | "cached" | "failed" | "confidence_failed"
    raw_text,   \* the document
    embed,      \* how the embedding backend labels a heading
    ner,        \* whether an NER handle is passed to the assembler
    sections,   \* split_into_sections(raw_text): label -> text
    parsed,     \* assemble_full_schema(raw_text, sections, nlp)
    final,      \* outcome of normalize_schema(parsed)
    conf_bundle,  \* outcome of the worker's call of confidence_scores
    resume_score, \* the overall score the worker reads from it
    use_cache,  \* the use_cache argument of process_single_file
    hash_cache, \* the hash_cache table: a set of rows, one per hash
    envelope,   \* what the last call returned (NoEnvelope while it runs)
    \* --- normalizer: normalize_schema applied once and twice to a record
    npc,        \* "input" | "normalized" | "renormalized"
    rec,        \* the record handed to normalize_schema (key -> JSON value)
    dp,         \* how dateparser.parse resolves a date-like phrase
    out1,       \* outcome of normalize_schema(rec)
    out2,       \* outcome of normalize_schema(out1.data)
    \* --- selector: pick_best's loop over the candidates of one field
    spc,        \* "loop" | "returned"
    selField,   \* the schema field the candidates are for
    selCands,   \* the candidate list, in collection order
    selNlp,     \* an NER handle was passed
    selEmbed,   \* the embedding backend and prototypes are available
    pi,         \* index of the next candidate the loop scores
    best,       \* index of the best candidate so far (0: None)
    best_score, \* its score
    scores,     \* the scores score_candidate returned, in loop order
    \* --- builder: build_final_schema's phone and work-experience steps
    bpc,        \* "start" | "collected" | "phone" | "parse" | "fill"
                \* | "returned" | "raised"
    b_raw,      \* raw_text handed to build_final_schema
    b_secs,     \* canonical_sections handed to it: <<label, text>> pairs
    cand_phone, \* cand["phoneNumber"]: the candidate texts, in order
    phoneNumber,\* parsed["phoneNumber"]
    workExperience, \* parsed["workExperience"] (out while it is parsed)
    scan_i,     \* parse_experience_blocks: the line the scan is at (from 1;
                \* 0 before the call)
    scan_log,   \* ... and, per entry, the line it opened at and the line
                \* its details ended before: <<i, j>>
    wi,         \* index of the work item _fill_missing_work_orgs is at
    fill_cand,  \* its local variable cand (Unbound until first assigned)
    \* --- loader: threads calling get_spacy_model concurrently
    tpc,        \* thread -> position in get_spacy_model
    tname,      \* thread -> the name it asked for
    tret,       \* thread -> what the call returned or raised
    _models,    \* the module cache: name -> model object (NoModel: absent)
    _lock,      \* the thread that holds the module lock (0: none)
    load_log,   \* name -> number of spacy.load calls that succeeded
    \* --- skills: the skills step of build_final_schema
    skpc,       \* position in the skills step
    sk_secs,    \* its canonical sections
    clean_skills,       \* extract_skills(skills_text), as a set
    skills_by_category, \* parsed["skills_by_category"]
    \* --- embedding: threads calling _score_and_label_heading concurrently
    wpc,        \* worker -> position in the call
    wres,       \* worker -> what its call returned or raised
    _MODEL,     \* the module global (None, or a model object)
    _EMBEDDINGS,        \* the module global (None, or what a model encoded)
    _CANONICAL_LABELS,  \* the module global
    _labels,    \* model object -> its attribute _labels
    \* --- api: one request to POST /parse
    apc,        \* position in parse_resume
    a_size,     \* len(contents)
    a_text,     \* raw_text
    include_confidence, \* the query parameter
    save,       \* the query parameter
    normalized, \* normalize_schema(schema)
    confidence_map,     \* the local of that name
    confidence_bundle,  \* the local of that name, unassigned or bound
    response_payload,   \* the local of that name, unassigned or bound
    response    \* what the client receives

pipeVars ==
    <<ppc, raw_text, embed, ner, sections, parsed, final, conf_bundle,
      resume_score, use_cache, hash_cache, envelope>>
normVars == <<npc, rec, dp, out1, out2>>
scoreVars ==
    <<spc, selField, selCands, selNlp, selEmbed, pi, best, best_score, scores>>
buildVars ==
    <<bpc, b_raw, b_secs, cand_phone, phoneNumber, workExperience, scan_i,
      scan_log, wi, fill_cand>>
loadVars == <<tpc, tname, tret, _models, _lock, load_log>>
skillVars == <<skpc, sk_secs, clean_skills, skills_by_category>>
embedVars ==
    <<wpc, wres, _MODEL, _EMBEDDINGS, _CANONICAL_LABELS, _labels>>
apiVars ==
    <<apc, a_size, a_text, include_confidence, save, normalized,
      confidence_map, confidence_bundle, response_payload, response>>
vars == <<pipeVars, normVars, scoreVars, buildVars, loadVars, skillVars,
          embedVars, apiVars>>

-----------------------------------------------------------------------------
(***************************************************************************)
(* Characters and Python str primitives                                    *)
(***************************************************************************)
NL == "\n"
TAB == "\t"
ENDASH == "ENDASH"      \* U+2013
EMDASH == "EMDASH"      \* U+2014

Digit == {"0","1","2","3","4","5","6","7","8","9"}
LowerAZ == {"a","b","c","d","e","f","g","h","i","j","k","l","m",
            "n","o","p","q","r","s","t","u","v","w","x","y","z"}
UpperAZ == {"A","B","C","D","E","F","G","H","I","J","K","L","M",
            "N","O","P","Q","R","S","T","U","V","W","X","Y","Z"}
Alpha == LowerAZ \cup UpperAZ
Space == {" ", NL, TAB}                 \* \s
WordCh == Alpha \cup Digit \cup {"_"}   \* \w

UpperSeq == <<"A","B","C","D","E","F","G","H","I","J","K","L","M",
              "N","O","P","Q","R","S","T","U","V","W","X","Y","Z">>
LowerSeq == <<"a","b","c","d","e","f","g","h","i","j","k","l","m",
              "n","o","p","q","r","s","t","u","v","w","x","y","z">>

\* str.lower() on one character
LowerCh(c) ==
    IF c \in UpperAZ
    THEN LowerSeq[CHOOSE i \in 1..26 : UpperSeq[i] = c]
    ELSE c

\* str.lower()
Lower(s) == [i \in 1..Len(s) |-> LowerCh(s[i])]

Max(a, b) == IF a >= b THEN a ELSE b
Min(a, b) == IF a <= b THEN a ELSE b

\* s[a:b] with 0-based half-open Python indices
Slice(s, a, b) == IF b <= a THEN <<>> ELSE SubSeq(s, a + 1, b)

\* The least and the greatest member of a non-empty set of integers
SetMin(ps) == CHOOSE p \in ps : \A q \in ps : p <= q
SetMax(ps) == CHOOSE p \in ps : \A q \in ps : q <= p

\* The positions of s whose character is outside cs
Kept(s, cs) == {i \in 1..Len(s) : s[i] \notin cs}
\* str.lstrip(chars), str.rstrip(chars)
LStripSet(s, cs) ==
    IF Kept(s, cs) = {} THEN <<>> ELSE SubSeq(s, SetMin(Kept(s, cs)), Len(s))
RStripSet(s, cs) ==
    IF Kept(s, cs) = {} THEN <<>> ELSE SubSeq(s, 1, SetMax(Kept(s, cs)))

\* str.strip(chars)
StripSet(s, cs) == RStripSet(LStripSet(s, cs), cs)
\* str.strip()
Strip(s) == StripSet(s, Space)
\* str.rstrip()
RStrip(s) == RStripSet(s, Space)

\* sub in s  (substring test)
Contains(s, sub) ==
    \E i \in 0..(Len(s) - Len(sub)) : Slice(s, i, i + Len(sub)) = sub

\* any(w in s for w in ws)
ContainsAny(s, ws) == \E w \in ws : Contains(s, w)

\* s.split(sep-set): split at every single separator character, empty
\* pieces kept (str.split("\n"), re.split on a character class)
\* The piece that starts after position b (0, or a separator's position)
\* and runs to the next separator or the end
PieceFrom(s, seps, b) ==
    LET nxt == {j \in (b + 1)..Len(s) : s[j] \in seps}
    IN SubSeq(s, b + 1, IF nxt = {} THEN Len(s) ELSE SetMin(nxt) - 1)
\* The members of a set of integers in increasing order
Sorted(ps) ==
    [k \in 1..Cardinality(ps) |->
        CHOOSE p \in ps : Cardinality({q \in ps : q < p}) = k - 1]
PiecesFrom(s, seps, starts) ==
    [k \in 1..Len(starts) |-> PieceFrom(s, seps, starts[k])]
SplitOn(s, seps) ==
    PiecesFrom(s, seps, Sorted({0} \cup {j \in 1..Len(s) : s[j] \in seps}))

SelectNonEmpty(ss) == SelectSeq(ss, LAMBDA x : x # <<>>)

\* str.split(): split on runs of whitespace, no empty pieces
Words(s) == SelectNonEmpty(SplitOn(s, Space))

\* " ".join(ws) and friends
RECURSIVE Join(_, _)
Join(ws, sep) ==
    IF ws = <<>> THEN <<>>
    ELSE IF Len(ws) = 1 THEN ws[1]
    ELSE ws[1] \o sep \o Join(Tail(ws), sep)

\* [l.strip() for l in text.split("\n") if l.strip()]
StripEach(raw) == SelectNonEmpty([i \in 1..Len(raw) |-> Strip(raw[i])])
StrippedLines(text) == StripEach(SplitOn(text, {NL}))

-----------------------------------------------------------------------------
(***************************************************************************)
(* Regular expressions: the algebra and Python's matcher                   *)
(***************************************************************************)
\* A repetition bound hi < 0 is an open bound: r{lo,}
ReNode(op, set, neg, subs, lo, hi) ==
    [op |-> op, set |-> set, neg |-> neg, subs |-> subs, lo |-> lo, hi |-> hi]

Chr(S)        == ReNode("chr", S, FALSE, <<>>, 0, 0)      \* [S]
NotChr(S)     == ReNode("chr", S, TRUE, <<>>, 0, 0)       \* [^S]
Cat(subs)     == ReNode("cat", {}, FALSE, subs, 0, 0)     \* r1 r2 ...
Alt(subs)     == ReNode("alt", {}, FALSE, subs, 0, 0)     \* r1|r2|...
Rep(r, lo, hi) == ReNode("rep", {}, FALSE, <<r>>, lo, hi) \* r{lo,hi} greedy
Opt(r)        == Rep(r, 0, 1)                             \* r?
Star(r)       == Rep(r, 0, -1)                            \* r*
Plus(r)       == Rep(r, 1, -1)                            \* r+
Wb            == ReNode("wb", {}, FALSE, <<>>, 0, 0)      \* \b
Bol           == ReNode("bol", {}, FALSE, <<>>, 0, 0)     \* ^
Eol           == ReNode("eol", {}, FALSE, <<>>, 0, 0)     \* $
Lit(cs)       == Cat([i \in 1..Len(cs) |-> Chr({cs[i]})]) \* a literal
AltLit(css)   == Alt([i \in 1..Len(css) |-> Lit(css[i])]) \* lit1|lit2|...

IsWordAt(s, i) == i >= 1 /\ i <= Len(s) /\ s[i] \in WordCh

\* The first alternative that matches: a, unless it failed
OrElse(a, b) == IF a >= 0 THEN a ELSE b
\* r{lo,hi} after one more repetition
RepRest(h) ==
    [h EXCEPT !.lo = Max(0, h.lo - 1),
              !.hi = IF h.hi < 0 THEN h.hi ELSE h.hi - 1]

\* The number of characters from offset i on that the class c accepts, up
\* to hi of them (any number when hi < 0)
ClassRun(c, s, i, hi) ==
    LET stop == {j \in (i + 1)..Len(s) : (s[j] \in c.set) = c.neg}
        run  == (IF stop = {} THEN Len(s)
                 ELSE CHOOSE j \in stop : \A k \in stop : j <= k) - 1 - i
        all  == IF stop = {} THEN Len(s) - i ELSE run
    IN IF hi >= 0 /\ hi < all THEN hi ELSE all

\* tries is a set of <<choice, end>>: the end offset of the match under
\* each choice, -1 where it fails.  The match is the one of the preferred
\* choice among those that succeed: the greatest for a greedy repetition,
\* the least for an alternation.
Greatest(tries) ==
    LET good == {x \in tries : x[2] >= 0}
    IN IF good = {} THEN -1
       ELSE (CHOOSE x \in good : \A y \in good : y[1] <= x[1])[2]
Least(tries) ==
    LET good == {x \in tries : x[2] >= 0}
    IN IF good = {} THEN -1
       ELSE (CHOOSE x \in good : \A y \in good : x[1] <= y[1])[2]

\* The match of the node sequence rs against s from offset i (0-based):
\* the end offset of the first match in Python's backtracking order, or -1.
RECURSIVE ReMatch(_, _, _)
ReMatch(rs, s, i) ==
    IF rs = <<>> THEN i
    ELSE
    LET h == Head(rs)
        t == Tail(rs)
    IN
    CASE h.op = "chr" ->
           IF i < Len(s) /\ ((s[i + 1] \in h.set) # h.neg)
           THEN ReMatch(t, s, i + 1) ELSE -1
      [] h.op = "cat" -> ReMatch(h.subs \o t, s, i)
      [] h.op = "alt" ->
           \* ordered alternation: the first alternative under which the
           \* rest of the pattern matches
           Least({<<j, ReMatch(<<h.subs[j]>> \o t, s, i)>> :
                    j \in 1..Len(h.subs)})
      [] h.op = "rep" ->
           IF h.subs[1].op = "chr"
           THEN \* a repeated class: the longest run after which the rest
                \* of the pattern matches
                Greatest({<<k, ReMatch(t, s, i + k)>> :
                            k \in h.lo..ClassRun(h.subs[1], s, i, h.hi)})
           ELSE \* greedy: one more repetition first, then the rest
                OrElse(IF h.hi = 0 THEN -1
                       ELSE ReMatch(<<h.subs[1], RepRest(h)>> \o t, s, i),
                       IF h.lo = 0 THEN ReMatch(t, s, i) ELSE -1)
      [] h.op = "wb" ->
           IF IsWordAt(s, i) # IsWordAt(s, i + 1)
           THEN ReMatch(t, s, i) ELSE -1
      [] h.op = "bol" -> IF i = 0 THEN ReMatch(t, s, i) ELSE -1
      [] h.op = "eol" ->
           IF i = Len(s) \/ (i = Len(s) - 1 /\ s[Len(s)] = NL)
           THEN ReMatch(t, s, i) ELSE -1

NoMatch == [st |-> -1, en |-> -1]
\* The match that starts at the least of the offsets ps where one starts
FirstSpan(re, s, ps) ==
    IF ps = {} THEN NoMatch
    ELSE [st |-> SetMin(ps), en |-> ReMatch(<<re>>, s, SetMin(ps))]

\* pattern.search(s, pos): the leftmost match at or after offset pos
ReSearchFrom(re, s, pos) ==
    FirstSpan(re, s, {p \in pos..Len(s) : ReMatch(<<re>>, s, p) >= 0})

ReSearch(re, s) == ReSearchFrom(re, s, 0)
ReFound(re, s) == \E p \in 0..Len(s) : ReMatch(<<re>>, s, p) >= 0
\* m.group(0)
Span(s, m) == Slice(s, m.st, m.en)
ReGroup0(re, s) == Span(s, ReSearch(re, s))

\* Where the scan resumes after the match m (past an empty match)
AfterMatch(m) == IF m.en > m.st THEN m.en ELSE m.en + 1

\* pattern.finditer(s): the non-overlapping matches, left to right
RECURSIVE ReFindAll(_, _, _)
RECURSIVE FindAllAt(_, _, _)
FindAllAt(re, s, m) ==
    IF m.st < 0 THEN <<>> ELSE <<m>> \o ReFindAll(re, s, AfterMatch(m))
ReFindAll(re, s, pos) == FindAllAt(re, s, ReSearchFrom(re, s, pos))

\* re.sub(pattern, "", s)
RECURSIVE ReRemove(_, _, _)
RECURSIVE RemoveAt(_, _, _, _)
RemoveAt(re, s, pos, m) ==
    IF m.st < 0 THEN Slice(s, pos, Len(s))
    ELSE Slice(s, pos, m.st) \o ReRemove(re, s, AfterMatch(m))
ReRemove(re, s, pos) == RemoveAt(re, s, pos, ReSearchFrom(re, s, pos))

\* re.sub(r"\s+", " ", s)
\* A whitespace character that follows another one is dropped, the first
\* of a run becomes a space
Collapsed(s, i) ==
    IF s[i] \notin Space THEN s[i]
    ELSE IF i > 1 /\ s[i - 1] \in Space THEN "" ELSE " "
CollapseWs(s) ==
    SelectSeq([i \in 1..Len(s) |-> Collapsed(s, i)], LAMBDA c : c # "")

-----------------------------------------------------------------------------
(***************************************************************************)
(* JSON values and Python's dynamic typing                                 *)
(***************************************************************************)
JStr(s)      == [k |-> "str", s |-> s]
JNum(n)      == [k |-> "num", n |-> n]
JNull        == [k |-> "null"]
JList(items) == [k |-> "list", items |-> items]
JDict(d)     == [k |-> "dict", d |-> d]
\* An uncaught TypeError / AttributeError leaving the function
Raised       == [k |-> "raise"]
EmptyStr     == JStr(<<>>)
EmptyDict    == JDict(<<>>)

IsStr(v)  == v.k = "str"
IsList(v) == v.k = "list"
IsDict(v) == v.k = "dict"

\* bool(v): Python truthiness
Truthy(v) ==
    CASE v.k = "str"  -> v.s # <<>>
      [] v.k = "num"  -> v.n # 0
      [] v.k = "null" -> FALSE
      [] v.k = "list" -> v.items # <<>>
      [] v.k = "dict" -> DOMAIN v.d # {}

\* d.get(key, default) on a key -> value function
Get(d, key, default) == IF key \in DOMAIN d THEN d[key] ELSE default

DigitSeq == <<"0","1","2","3","4","5","6","7","8","9">>
DigitVal(c) == (CHOOSE i \in 1..10 : DigitSeq[i] = c) - 1

RECURSIVE NatToStr(_)
NatToStr(n) ==
    IF n < 10 THEN <<DigitSeq[n + 1]>>
    ELSE NatToStr(n \div 10) \o <<DigitSeq[(n % 10) + 1]>>

\* str(n) for an int
IntToStr(n) == IF n < 0 THEN <<"-">> \o NatToStr(-n) ELSE NatToStr(n)

\* repr(v) of a str, a number, None or a list of those
RECURSIVE PyRepr(_)
PyRepr(v) ==
    CASE v.k = "str"  -> <<"'">> \o v.s \o <<"'">>
      [] v.k = "num"  -> IntToStr(v.n)
      [] v.k = "null" -> <<"N","o","n","e">>
      [] v.k = "list" ->
           <<"[">> \o Join([i \in 1..Len(v.items) |-> PyRepr(v.items[i])],
                           <<",", " ">>) \o <<"]">>

\* str(v)
PyStr(v) == IF v.k = "str" THEN v.s ELSE PyRepr(v)

\* "%" in v : membership by the container's type; a number or None is not
\* iterable (TypeError)
PercentIn(v) ==
    CASE v.k = "str"  -> Contains(v.s, <<"%">>)
      [] v.k = "list" -> \E i \in 1..Len(v.items) : v.items[i] = JStr(<<"%">>)
      [] v.k = "dict" -> "%" \in DOMAIN v.d
      [] OTHER        -> FALSE
PercentInRaises(v) == v.k \in {"num", "null"}

-----------------------------------------------------------------------------
(***************************************************************************)
(* helpers/normalization.py                                                *)
(***************************************************************************)
\* YEAR_RE = \b(19|20)\d{2}\b
YEAR_RE ==
    Cat(<<Wb, AltLit(<<<<"1","9">>, <<"2","0">>>>), Rep(Chr(Digit), 2, 2), Wb>>)

\* \S+@\S+
EntityEmailRe == Cat(<<Plus(NotChr(Space)), Chr({"@"}), Plus(NotChr(Space))>>)
\* https?://\S+
EntityUrlRe ==
    Cat(<<Lit(<<"h","t","t","p">>), Opt(Chr({"s"})), Lit(<<":","/","/">>),
          Plus(NotChr(Space))>>)
\* \+?\d[\d\s\-()/]{6,}
EntityPhoneRe ==
    Cat(<<Opt(Chr({"+"})), Chr(Digit),
          Rep(Chr(Digit \cup Space \cup {"-", "(", ")", "/"}), 6, -1)>>)

EntityWordCap == 10

\* if len(text.split()) > 10: return ""
CapWords(s) == IF Len(Words(s)) > EntityWordCap THEN EmptyStr ELSE JStr(s)

_clean_entity_text_zeroing(v) ==
    IF ~Truthy(v) THEN EmptyStr
    ELSE IF ~IsStr(v) THEN Raised
    ELSE IF ReFound(EntityEmailRe, v.s) \/ ReFound(EntityUrlRe, v.s)
            \/ ReFound(EntityPhoneRe, v.s)
            \/ Len(Words(v.s)) > EntityWordCap
         THEN EmptyStr
         ELSE JStr(Strip(CollapseWs(v.s)))

_clean_entity_text_uncapped(v) ==
    IF ~Truthy(v) THEN EmptyStr
    ELSE IF ~IsStr(v) THEN Raised
    ELSE JStr(Strip(CollapseWs(
             ReRemove(EntityPhoneRe,
                 ReRemove(EntityUrlRe,
                     ReRemove(EntityEmailRe, v.s, 0), 0), 0))))

_clean_entity_text(v) ==
    IF ~Truthy(v) THEN EmptyStr
    ELSE IF ~IsStr(v) THEN Raised         \* re.sub on a non-str: TypeError
    ELSE CapWords(Strip(CollapseWs(
             ReRemove(EntityPhoneRe,
                 ReRemove(EntityUrlRe,
                     ReRemove(EntityEmailRe, v.s, 0), 0), 0))))

clean_whitespace(text) ==
    IF ~Truthy(text) THEN EmptyStr
    ELSE IF ~IsStr(text) THEN Raised      \* re.sub on a non-str: TypeError
    ELSE JStr(Strip(CollapseWs(text.s)))

MonthNames ==
    {<<"j","a","n">>, <<"f","e","b">>, <<"m","a","r">>, <<"a","p","r">>,
     <<"m","a","y">>, <<"j","u","n">>, <<"j","u","l">>, <<"a","u","g">>,
     <<"s","e","p">>, <<"o","c","t">>, <<"n","o","v">>, <<"d","e","c">>}

\* The phrases dateparser may resolve to a date: those with a digit or a
\* month name.  Whether it does is the library's choice (dp).
DateLike(s) ==
    (\E i \in 1..Len(s) : s[i] \in Digit) \/ ContainsAny(Lower(s), MonthNames)

\* The year of the date dateparser builds from a phrase that names none:
\* the year of the run.
DpYear == <<"2","0","2","6">>

\* dateparser.parse(s) followed by str(dt.year); <<>> stands for None
dateparser_year(s, oracle) ==
    IF oracle = "parses" /\ DateLike(s) THEN DpYear ELSE <<>>

normalize_year_first_digits(year_str, oracle) ==
    IF ~Truthy(year_str) THEN EmptyStr
    ELSE IF ~IsStr(year_str) THEN Raised
    ELSE LET ds == SelectSeq(year_str.s, LAMBDA c : c \in Digit)
         IN JStr(Slice(ds, 0, Min(4, Len(ds))))

normalize_year(year_str, oracle) ==
    IF ~Truthy(year_str) THEN EmptyStr
    ELSE IF ~IsStr(year_str) THEN Raised  \* YEAR_RE.search(non-str)
    ELSE IF ReFound(YEAR_RE, year_str.s)
         THEN JStr(ReGroup0(YEAR_RE, year_str.s))
         ELSE JStr(dateparser_year(year_str.s, oracle))

\* float(): [+-]?(\d+\.?\d*|\.\d+) after stripping whitespace (decimal
\* literals; exponents, inf and nan are outside the inputs considered)
FloatRe ==
    Cat(<<Bol, Opt(Chr({"+", "-"})),
          Alt(<<Cat(<<Plus(Chr(Digit)), Opt(Chr({"."})), Star(Chr(Digit))>>),
                Cat(<<Chr({"."}), Plus(Chr(Digit))>>)>>),
          Eol>>)

FullMatch(re, t) == t # <<>> /\ ReMatch(<<re>>, t, 0) = Len(t)
IsFloat(s) == FullMatch(FloatRe, Strip(s))

AllZero(ds) == \A i \in 1..Len(ds) : ds[i] = "0"

\* The digits of a decimal literal: [neg, ip (integer digits without
\* leading zeros), fp (fraction digits)]
DotAt(u) ==
    IF \E i \in 1..Len(u) : u[i] = "."
    THEN CHOOSE i \in 1..Len(u) : u[i] = "." ELSE Len(u) + 1
PartsAt(neg, u, dot) ==
    [neg |-> neg,
     ip  |-> LStripSet(SubSeq(u, 1, dot - 1), {"0"}),
     fp  |-> SubSeq(u, dot + 1, Len(u))]
Unsigned(t) == IF t[1] \in {"+", "-"} THEN Tail(t) ELSE t
SignedParts(t) == PartsAt(t[1] = "-", Unsigned(t), DotAt(Unsigned(t)))
FloatParts(s) == SignedParts(Strip(s))

\* v <= 4.5
Le45(p) ==
    \/ p.neg
    \/ p.ip = <<>>
    \/ Len(p.ip) = 1 /\ DigitVal(p.ip[1]) < 4
    \/ Len(p.ip) = 1 /\ p.ip[1] = "4"
       /\ (p.fp = <<>> \/ DigitVal(p.fp[1]) < 5
           \/ (p.fp[1] = "5" /\ AllZero(Tail(p.fp))))
FloatLe45(s) == Le45(FloatParts(s))

\* v <= 10
Le10(p) ==
    \/ p.neg
    \/ Len(p.ip) <= 1
    \/ p.ip = <<"1","0">> /\ AllZero(p.fp)
FloatLe10(s) == Le10(FloatParts(s))

RemoveChar(s, c) == SelectSeq(s, LAMBDA x : x # c)

normalize_gpa_or_percentage_keep_sign(value, scale) ==
    IF ~Truthy(value) THEN <<EmptyStr, EmptyStr>>
    ELSE IF PercentInRaises(scale) \/ ~IsStr(value) THEN Raised
    ELSE IF PercentIn(scale) \/ PercentIn(value)
         THEN <<value, JStr(<<"%">>)>>
         ELSE <<value, scale>>

normalize_gpa_or_percentage(value, scale) ==
    IF ~Truthy(value) THEN <<EmptyStr, EmptyStr>>
    ELSE IF PercentInRaises(scale) THEN Raised          \* "%" in scale
    ELSE IF ~PercentIn(scale) /\ PercentInRaises(value) THEN Raised
    ELSE IF PercentIn(scale) \/ PercentIn(value)
         THEN \* value.replace("%", "").strip(): only a str has replace
              IF ~IsStr(value) THEN Raised
              ELSE <<JStr(Strip(RemoveChar(value.s, "%"))), JStr(<<"%">>)>>
    ELSE IF ~IsStr(value) \/ ~IsFloat(value.s)
         THEN <<value, scale>>            \* float() failed: except Exception
    ELSE IF ~Truthy(scale)
         THEN <<value,
                IF FloatLe45(value.s) THEN JStr(<<"4">>)
                ELSE IF FloatLe10(value.s) THEN JStr(<<"1","0">>)
                ELSE EmptyStr>>
         ELSE <<value, scale>>

\* The schema of assemble_full_schema's record
ScalarKeys ==
    {"name", "email", "phoneNumber",
     "highSchoolName", "highSchoolAddress", "highSchoolGpaOrPercentage",
     "highSchoolGpaScale", "highSchoolBoard", "highSchoolGraduationYear",
     "ugCollegeName", "ugCollegeAddress", "ugCollegeGpaOrPercentage",
     "ugCollegeGpaScale", "ugUniversity", "ugGraduationYear", "ugDegree",
     "ugMajor",
     "pgCollegeName", "pgCollegeAddress", "pgCollegeGpaOrPercentage",
     "pgCollegeGpaScale", "pgUniversity", "pgGraduationYear", "pgDegree",
     "pgMajor"}
LIST_FIELDS ==
    <<"certifications", "extraCurricularActivities", "workExperience",
      "researchPublications", "achievements">>
ListKeys == {LIST_FIELDS[i] : i \in 1..Len(LIST_FIELDS)}
TestScoreKeys == {"sat", "act", "gre", "gmat", "toefl", "ielts"}
SchemaKeys == ScalarKeys \cup ListKeys \cup {"testScores"}

\* "GraduationYear" in key or "graduationYear" in key, over the schema's keys
GraduationYearKeys ==
    {"highSchoolGraduationYear", "ugGraduationYear", "pgGraduationYear"}
GpaPairs ==
    <<<<"highSchoolGpaOrPercentage", "highSchoolGpaScale">>,
      <<"ugCollegeGpaOrPercentage", "ugCollegeGpaScale">>,
      <<"pgCollegeGpaOrPercentage", "pgCollegeGpaScale">>>>
EntityKeys ==
    {"ugCollegeName", "ugDegree", "ugMajor",
     "pgCollegeName", "pgDegree", "pgMajor"}
DEFAULT_STR_FIELDS ==
    {"name", "email", "phoneNumber",
     "ugCollegeName", "ugDegree", "ugMajor",
     "pgCollegeName", "pgDegree", "pgMajor"}

\* d[key] = v on a key -> value function
Put(d, key, v) ==
    [x \in (DOMAIN d) \cup {key} |-> IF x = key THEN v ELSE d[x]]

Ok(d)  == [raised |-> FALSE, data |-> d]
Threw  == [raised |-> TRUE, data |-> <<>>]

\* final_data[key] = f(final_data.get(key, "")) for each key of keys; the
\* keys are distinct and f reads only its own key
ApplyEach(d, keys, F(_)) ==
    LET vals == [x \in keys |-> F(Get(d, x, EmptyStr))]
    IN IF \E x \in keys : vals[x] = Raised THEN Threw
       ELSE Ok([x \in (DOMAIN d) \cup keys |->
                  IF x \in keys THEN vals[x] ELSE d[x]])

\* 1) basic scalar normalization (lines 117-119)
NormScalars(d) == ApplyEach(d, {"name", "email", "phoneNumber"}, clean_whitespace)

\* 2) graduation years (lines 124-126)
NormYears(d, oracle) ==
    ApplyEach(d, GraduationYearKeys \cap DOMAIN d,
              LAMBDA v : normalize_year(v, oracle))

\* 3) GPA pairs (lines 131-150)
RECURSIVE NormGpa(_, _)
RECURSIVE PutGpa(_, _, _)
\* final_data[val_key] = value; final_data[scale_key] = scale_norm
PutGpa(d, pairs, r) ==
    IF r = Raised THEN Threw
    ELSE NormGpa(Put(Put(d, Head(pairs)[1], r[1]), Head(pairs)[2], r[2]),
                 Tail(pairs))
NormGpa(d, pairs) ==
    IF pairs = <<>> THEN Ok(d)
    ELSE PutGpa(d, pairs,
                normalize_gpa_or_percentage(Get(d, Head(pairs)[1], EmptyStr),
                                            Get(d, Head(pairs)[2], EmptyStr)))

\* the cleaned copy of one list field's items (lines 168-176)
RECURSIVE CleanItems(_)
CleanItems(items) ==
    IF items = <<>> THEN <<>>
    ELSE LET it == Head(items)
         IN (CASE it.k = "str"  -> <<clean_whitespace(it)>>
               [] it.k = "dict" ->
                    <<JDict([f \in DOMAIN it.d |->
                               clean_whitespace(JStr(PyStr(it.d[f])))])>>
               [] OTHER -> <<>>)
            \o CleanItems(Tail(items))

\* 4) list fields (lines 155-176)
RECURSIVE NormLists(_, _)
NormLists(d, keys) ==
    IF keys = <<>> THEN d
    ELSE LET lf == Head(keys)
             v  == Get(d, lf, JNull)
         IN NormLists(Put(d, lf, IF IsList(v) THEN JList(CleanItems(v.items))
                                 ELSE JList(<<>>)),
                      Tail(keys))

\* 5) education entity fields (lines 181-185)
NormEntities(d) == ApplyEach(d, EntityKeys, _clean_entity_text)

KeepWorkStartOnly(org, title, start, end) ==
    (Truthy(org) \/ Truthy(title)) /\ Truthy(start)

KeepWorkAny(org, title, start, end) ==
    Truthy(org) \/ Truthy(title) \/ Truthy(start) \/ Truthy(end)

\* must have org or title + at least one year (lines 203-206)
KeepWork(org, title, start, end) ==
    (Truthy(org) \/ Truthy(title)) /\ (Truthy(start) \/ Truthy(end))

\* 6) work experience (lines 190-219); every value of an entry is a str
\* after step 4
\* cleaned_work.append({...}) for an entry that is kept
CleanedEntry(org, title, start, end, details) ==
    IF ~KeepWork(org, title, start, end) THEN <<>>
    ELSE <<JDict([organization |-> org, title |-> title,
                  startYear |-> start, endYear |-> end,
                  details |-> IF IsList(details) THEN details ELSE JList(<<>>)])>>

CleanOne(w, oracle) ==
    IF ~IsDict(w) THEN <<>>
    ELSE CleanedEntry(_clean_entity_text(Get(w.d, "organization", EmptyStr)),
                      _clean_entity_text(Get(w.d, "title", EmptyStr)),
                      normalize_year(Get(w.d, "startYear", EmptyStr), oracle),
                      normalize_year(Get(w.d, "endYear", EmptyStr), oracle),
                      Get(w.d, "details", JList(<<>>)))

RECURSIVE CleanWork(_, _)
CleanWork(items, oracle) ==
    IF items = <<>> THEN <<>>
    ELSE CleanOne(Head(items), oracle) \o CleanWork(Tail(items), oracle)

NormWork(d, oracle) ==
    Put(d, "workExperience",
        JList(CleanWork(Get(d, "workExperience", JList(<<>>)).items, oracle)))

\* 7) final schema guard (lines 224-244)
SchemaGuard(d) ==
    [x \in (DOMAIN d) \cup ListKeys \cup DEFAULT_STR_FIELDS |->
        IF x \in ListKeys
        THEN (IF x \in DOMAIN d /\ IsList(d[x]) THEN d[x] ELSE JList(<<>>))
        ELSE IF x \in DEFAULT_STR_FIELDS
        THEN (IF x \in DOMAIN d /\ IsStr(d[x]) THEN d[x] ELSE EmptyStr)
        ELSE d[x]]

\* The next step of a function on the value of the previous one, unless an
\* earlier step raised
Then(r, F(_)) == IF r.raised THEN r ELSE F(r.data)

\* normalize_schema(final_data): the record returned, or raised
normalize_schema(final_data, oracle) ==
    Then(Then(Then(Then(Then(NormScalars(final_data),
                             LAMBDA d : NormYears(d, oracle)),
                        LAMBDA d : NormGpa(d, GpaPairs)),
                   LAMBDA d : Ok(NormLists(d, LIST_FIELDS))),
              NormEntities),
         LAMBDA d : Ok(SchemaGuard(NormWork(d, oracle))))

-----------------------------------------------------------------------------
(***************************************************************************)
(* The normalizer applied once and twice to a record                       *)
(***************************************************************************)
\* The record assemble_full_schema starts from (field_extraction.py 441-480)
DefaultRecord ==
    [x \in SchemaKeys |->
        IF x \in ScalarKeys THEN EmptyStr
        ELSE IF x \in ListKeys THEN JList(<<>>)
        ELSE JDict([t \in TestScoreKeys |-> EmptyStr])]

S_Acme == <<"A","c","m","e">>
S_Engineer == <<"E","n","g","i","n","e","e","r">>
S_2019 == <<"2","0","1","9">>
S_2020 == <<"2","0","2","0">>
S_2021 == <<"2","0","2","1">>
S_MailSentence == <<"c","o","n","t","a","c","t"," ","m","e"," ","a","t"," ","a","@","b",".","c","o","m">>
S_Developed == <<"D","e","v","e","l","o","p","e","d"," ","b","a","c","k","e","n","d"," ","s","e","r","v","i","c","e","s",".">>

\* Values a scalar field is probed with: clean and corrupted strings, and
\* the other JSON types
ScalarPool ==
    {EmptyStr, JStr(<<"J","o","h","n"," "," ","S","m","i","t","h">>), JStr(S_MailSentence),
     JStr(<<"s","e","e"," ","h","t","t","p","s",":","/","/","x",".","i","o"," ","n","o","w">>), JStr(<<"c","a","l","l"," ","5","5","5","1","2","3","4","5","6","7"," ","n","o","w">>),
     JStr(<<"h","t","t","p","1","2","3","4","5","6","7",":","/","/","x">>), JStr(<<"a"," ","b"," ","c"," ","d"," ","e"," ","f"," ","g"," ","h"," ","i"," ","j"," ","k">>),
     JStr(<<"G","r","a","d","u","a","t","e","d"," ","i","n"," ","2","0","2","1">>), JStr(<<"n","o","t"," ","a"," ","d","a","t","e">>), JStr(<<"M","a","y">>),
     JStr(<<"2","0","1","9"," ","t","o"," ","2","0","2","1">>), JStr(<<"i","d"," ","1","2","0","2","1","5">>),
     JNum(5), JNum(0), JNull, JList(<<>>), JList(<<JStr(<<"x">>)>>),
     EmptyDict}
ScalarProbeKeys ==
    {"name", "ugDegree", "pgCollegeName", "ugGraduationYear", "highSchoolName"}

GpaValuePool ==
    {EmptyStr, JStr(<<"8","5","%">>), JStr(<<"3",".","7">>), JStr(<<"8",".","2">>), JStr(<<"1","1">>),
     JStr(<<"4",".","5">>), JStr(<<"%">>), JStr(<<"A","+">>), JNum(4), JList(<<JStr(<<"x">>)>>)}
GpaScalePool == {EmptyStr, JStr(<<"%">>), JStr(<<"4">>), JStr(<<"1","0">>), JNull}
GpaProbePairs == {1, 2}

ListPool ==
    {JNull, JStr(<<"A","W","S">>), JList(<<>>),
     JList(<<JStr(<<"A","W","S"," "," ","C","e","r","t","i","f","i","e","d">>), JNum(3), JDict("n" :> JNum(1))>>)}

\* Work-experience entries: the three of the retention property, and
\* entries whose fields only the cleaning empties or fills
EntryNoOrgTitle ==
    JDict([organization |-> EmptyStr, title |-> EmptyStr,
           startYear |-> JStr(S_2020), endYear |-> EmptyStr])
EntryNoYear ==
    JDict([organization |-> JStr(S_Acme), title |-> EmptyStr,
           startYear |-> EmptyStr, endYear |-> EmptyStr])
EntryFull ==
    JDict([organization |-> JStr(S_Acme), title |-> JStr(S_Engineer),
           startYear |-> JStr(S_2019), endYear |-> JStr(S_2021)])
EntryPool ==
    {EntryNoOrgTitle, EntryNoYear, EntryFull,
     JDict([organization |-> JStr(S_Acme), endYear |-> JStr(S_2021),
            details |-> JList(<<JStr(S_Developed)>>)]),
     JDict([organization |-> JStr(<<"a","@","b",".","c","o","m">>), startYear |-> JStr(S_2019)]),
     JDict([title |-> JStr(S_Engineer), startYear |-> JStr(<<"2","0">>),
            endYear |-> JStr(S_2021), details |-> JStr(S_Developed)]),
     JDict([organization |-> JStr(S_Acme), startYear |-> JNum(2019),
            endYear |-> JNull]),
     JDict([title |-> JStr(<<"a"," ","b"," ","c"," ","d"," ","e"," ","f"," ","g"," ","h"," ","i"," ","j"," ","k">>),
            startYear |-> JStr(S_2019)]),
     JDict([organization |-> JStr(S_Acme), endYear |-> JStr(<<"P","r","e","s","e","n","t">>)]),
     JStr(<<"j","u","n","k">>)}

MaxWork == 2
WorkLists == UNION {[1..n -> EntryPool] : n \in 0..MaxWork}

\* One field (or GPA pair, or list) of a base record set to a probe value
NormInputs ==
    LET Bases == {<<>>, DefaultRecord}
    IN UNION {
         {Put(b, key, v) : key \in ScalarProbeKeys, v \in ScalarPool}
         \cup {Put(Put(b, GpaPairs[p][1], v), GpaPairs[p][2], s) :
                 p \in GpaProbePairs, v \in GpaValuePool, s \in GpaScalePool}
         \cup {Put(b, "certifications", v) : v \in ListPool}
         \cup {Put(b, "workExperience", JList(w)) : w \in WorkLists}
         \cup {b}
         : b \in Bases }

\* The value of the variables of a component a specification leaves out
Idle == "idle"
NormIdle ==
    /\ npc = Idle /\ rec = Idle /\ dp = Idle /\ out1 = Idle /\ out2 = Idle
PipeIdle ==
    /\ ppc = Idle /\ raw_text = Idle /\ embed = Idle /\ ner = Idle
    /\ sections = Idle /\ parsed = Idle /\ final = Idle
    /\ conf_bundle = Idle /\ resume_score = Idle
    /\ use_cache = Idle /\ hash_cache = Idle
    /\ envelope = Idle
ScoreIdle ==
    /\ spc = Idle /\ selField = Idle /\ selCands = Idle /\ selNlp = Idle
    /\ selEmbed = Idle /\ pi = Idle /\ best = Idle /\ best_score = Idle
    /\ scores = Idle
BuildIdle ==
    /\ bpc = Idle /\ b_raw = Idle /\ b_secs = Idle /\ cand_phone = Idle
    /\ phoneNumber = Idle /\ workExperience = Idle /\ wi = Idle
    /\ fill_cand = Idle /\ scan_i = Idle /\ scan_log = Idle
LoadIdle ==
    /\ tpc = Idle /\ tname = Idle /\ tret = Idle /\ _models = Idle
    /\ _lock = Idle /\ load_log = Idle
SkillIdle ==
    /\ skpc = Idle /\ sk_secs = Idle /\ clean_skills = Idle
    /\ skills_by_category = Idle
EmbedIdle ==
    /\ wpc = Idle /\ wres = Idle /\ _MODEL = Idle /\ _EMBEDDINGS = Idle
    /\ _CANONICAL_LABELS = Idle /\ _labels = Idle
ApiIdle ==
    /\ apc = Idle /\ a_size = Idle /\ a_text = Idle
    /\ include_confidence = Idle /\ save = Idle /\ normalized = Idle
    /\ confidence_map = Idle /\ confidence_bundle = Idle
    /\ response_payload = Idle /\ response = Idle

InitNorm ==
    /\ npc = "input"
    /\ rec \in NormInputs
    /\ dp \in {"none", "parses"}
    /\ out1 = Idle
    /\ out2 = Idle
    /\ ScoreIdle
    /\ PipeIdle
    /\ BuildIdle
    /\ LoadIdle
    /\ SkillIdle
    /\ EmbedIdle
    /\ ApiIdle

\* normalize_schema(rec)
Normalize ==
    /\ npc = "input"
    /\ out1' = normalize_schema(rec, dp)
    /\ npc' = "normalized"
    /\ UNCHANGED <<rec, dp, out2, scoreVars, pipeVars, buildVars, loadVars,
                   skillVars, embedVars, apiVars>>

\* normalize_schema applied to its own result
Renormalize ==
    /\ npc = "normalized"
    /\ ~out1.raised
    /\ out2' = normalize_schema(out1.data, dp)
    /\ npc' = "renormalized"
    /\ UNCHANGED <<rec, dp, out1, scoreVars, pipeVars, buildVars, loadVars,
                   skillVars, embedVars, apiVars>>

NextNorm == Normalize \/ Renormalize

SpecNorm == InitNorm /\ [][NextNorm]_vars

-----------------------------------------------------------------------------
(***************************************************************************)
(* Properties of the normalizer                                            *)
(***************************************************************************)
\* The value of schema key k has its schema type
RightType(k, v) ==
    IF k \in ScalarKeys THEN IsStr(v)
    ELSE IF k \in ListKeys THEN IsList(v)
    ELSE IsDict(v) /\ DOMAIN v.d = TestScoreKeys

HasSchemaShape(d) ==
    \A k \in SchemaKeys : k \in DOMAIN d /\ RightType(k, d[k])

\* C2: normalize_schema is total: for every input record (any subset of the
\* schema keys, values of any JSON type) it returns without raising, and the
\* record returned holds a value of the right type for every schema key.
C2_NormalizeTotal ==
    npc # "input" => (~out1.raised /\ HasSchemaShape(out1.data))

WorkOut(o) == o.data["workExperience"].items

Retained(e) ==
    /\ (e.d.organization # EmptyStr \/ e.d.title # EmptyStr)
    /\ (e.d.startYear # EmptyStr \/ e.d.endYear # EmptyStr)

InputWork == IF "workExperience" \in DOMAIN rec /\ IsList(rec["workExperience"])
             THEN rec["workExperience"].items ELSE <<>>

\* C3: after normalize_schema every workExperience entry has a non-empty
\* organization or title and a non-empty startYear or endYear (cleaned
\* values); the entry with no organization and no title and the entry with
\* no year are dropped, and the entry Acme / Engineer / 2019 / 2021 is kept.
C3_WorkRetention ==
    (npc # "input" /\ ~out1.raised) =>
        /\ \A i \in 1..Len(WorkOut(out1)) : Retained(WorkOut(out1)[i])
        /\ Len(WorkOut(out1))
             <= Len(SelectSeq(InputWork,
                     LAMBDA e : e \notin {EntryNoOrgTitle, EntryNoYear}))
        /\ Len(SelectSeq(WorkOut(out1),
                  LAMBDA e : e.d.organization = JStr(S_Acme)
                             /\ e.d.title = JStr(S_Engineer)
                             /\ e.d.startYear = JStr(S_2019)
                             /\ e.d.endYear = JStr(S_2021)))
           = Len(SelectSeq(InputWork, LAMBDA e : e = EntryFull))

\* C3 witness: a list holding a dropped entry and the retained example has
\* been normalized to the retained example alone
C3_Witness ==
    /\ npc = "normalized"
    /\ InputWork = <<EntryNoOrgTitle, EntryFull>>
    /\ ~out1.raised
    /\ Len(WorkOut(out1)) = 1

\* A scalar value that carries an '@', 'http' or a run of 7 or more digits
HasPii(v) ==
    /\ IsStr(v)
    /\ \/ Contains(v.s, <<"@">>)
       \/ Contains(v.s, <<"h","t","t","p">>)
       \/ ReFound(Rep(Chr(Digit), 7, -1), v.s)

\* C4: normalize_schema sets to the empty string every scalar field value
\* that contains an '@', 'http' or a run of 7 or more digits; the value is
\* zeroed as a whole.
C4_PiiZeroed ==
    (npc # "input" /\ ~out1.raised) =>
        \A k \in ScalarKeys \cap DOMAIN rec :
            HasPii(rec[k]) => out1.data[k] = EmptyStr

\* C5: normalize_schema(normalize_schema(r)) = normalize_schema(r), field
\* by field.
C5_Idempotent ==
    npc = "renormalized" => (~out2.raised /\ out2.data = out1.data)

-----------------------------------------------------------------------------
(***************************************************************************)
(* helpers/semantic_extraction.py: candidate scoring and selection         *)
(***************************************************************************)
\* \b(university|college|institute|school|faculty|polytechnic)\b, re.I
UNIV_HINT ==
    Cat(<<Wb, AltLit(<<<<"u","n","i","v","e","r","s","i","t","y">>,
              <<"c","o","l","l","e","g","e">>,
              <<"i","n","s","t","i","t","u","t","e">>,
              <<"s","c","h","o","o","l">>,
              <<"f","a","c","u","l","t","y">>,
              <<"p","o","l","y","t","e","c","h","n","i","c">>>>), Wb>>)
\* \b(bachelor|bsc|bs|ba|master|msc|ms|mba|phd|associate|diploma)\b, re.I
DEGREE_HINT ==
    Cat(<<Wb, AltLit(<<<<"b","a","c","h","e","l","o","r">>,
              <<"b","s","c">>,
              <<"b","s">>,
              <<"b","a">>,
              <<"m","a","s","t","e","r">>,
              <<"m","s","c">>,
              <<"m","s">>,
              <<"m","b","a">>,
              <<"p","h","d">>,
              <<"a","s","s","o","c","i","a","t","e">>,
              <<"d","i","p","l","o","m","a">>>>), Wb>>)
\* \b(certif|certificate|certified|pmp|six sigma|training|badge|award)\b, re.I
CERT_HINT ==
    Cat(<<Wb, AltLit(<<<<"c","e","r","t","i","f">>,
              <<"c","e","r","t","i","f","i","c","a","t","e">>,
              <<"c","e","r","t","i","f","i","e","d">>,
              <<"p","m","p">>,
              <<"s","i","x"," ","s","i","g","m","a">>,
              <<"t","r","a","i","n","i","n","g">>,
              <<"b","a","d","g","e">>,
              <<"a","w","a","r","d">>>>), Wb>>)
\* \b(apply|responsible|experience|present|pursuing|seeking)\b, re.I
CONFLICT_RE ==
    Cat(<<Wb, AltLit(<<<<"a","p","p","l","y">>,
              <<"r","e","s","p","o","n","s","i","b","l","e">>,
              <<"e","x","p","e","r","i","e","n","c","e">>,
              <<"p","r","e","s","e","n","t">>,
              <<"p","u","r","s","u","i","n","g">>,
              <<"s","e","e","k","i","n","g">>>>), Wb>>)

\* clean_line: re.sub(r"\s+", " ", s or "").strip()
clean_line(s) == Strip(CollapseWs(s))

UpperCh(c) ==
    IF c \in LowerAZ
    THEN UpperSeq[CHOOSE i \in 1..26 : LowerSeq[i] = c]
    ELSE c

\* str.title(): a letter that follows a letter is lowered, any other letter
\* is raised
Title(s) ==
    [i \in 1..Len(s) |->
        IF i > 1 /\ s[i - 1] \in Alpha THEN LowerCh(s[i]) ELSE UpperCh(s[i])]

\* Signals and weights are in hundredths, so a weighted sum is in
\* ten-thousandths.  A score is an exact fraction [num, den] whose den is
\* 10000 times the length penalty's denominator.
Unit == 100
Frac(n, d) == [num |-> n, den |-> d]
\* a > b, cross-multiplied with the common factor 10000 taken out
FracGt(a, b) ==
    a.num * (b.den \div (Unit * Unit)) > b.num * (a.den \div (Unit * Unit))
\* best_score = 0.0
FracZero == Frac(0, Unit * Unit)

LengthIdeal == 6
LengthFloorDen == 5

\* length_penalty(txt): 1.0 up to six words, then
\* max(0.2, 1 - (words - 6) / max(6, words))
PenaltyFor(words) ==
    IF words <= LengthIdeal THEN Frac(1, 1)
    ELSE \* max(6, words) = words, so the penalty is 6 / words; it is
         \* at most 0.2 = 1/5 from 30 words on
         IF LengthFloorDen * LengthIdeal <= words
         THEN Frac(1, LengthFloorDen)
         ELSE Frac(LengthIdeal, words)
length_penalty(txt) == PenaltyFor(Len(Words(txt)))

CollegeFields == {"ugCollegeName", "pgCollegeName"}

\* regex_score(txt, field), in hundredths
RegexSignals(txt, t, field) ==
    (IF field \in CollegeFields
     THEN (IF ReFound(UNIV_HINT, t) THEN 60 ELSE 0)
          + (IF ReFound(DEGREE_HINT, t) THEN 15 ELSE 0)
          + (IF ReFound(YEAR_RE, t) THEN 5 ELSE 0)
     ELSE 0)
    + (IF field = "name" /\ Len(Words(txt)) <= 4 /\ txt = Title(txt)
       THEN 60 ELSE 0)
    + (IF field = "certifications" /\ ReFound(CERT_HINT, t)
       THEN 70 ELSE 0)
regex_score(txt, field) == Min(Unit, RegexSignals(txt, Lower(txt), field))

\* section_boost(source_section, field), in hundredths
section_boost(source_section, field) ==
    LET src == source_section
    IN CASE src = "education" /\ field \in CollegeFields -> 40
         [] src = "education" /\ field = "degree" -> 30
         [] src = "experience" /\ field = "workExperience" -> 50
         [] src = "skills" /\ field = "skills" -> 60
         [] src = "certifications" /\ field = "certifications" -> 60
         [] src = "summary" /\ field = "summary" -> 60
         [] src = "contact" /\ field \in {"email", "phoneNumber"} -> 50
         [] src = "contact" /\ field = "name" -> 40
         [] OTHER -> 0

\* ner_score(nlp, txt, field), in hundredths.  ents is what the NER backend
\* reports for txt: the set of entity labels, "ORG_UNIV" standing for an
\* ORG/GPE entity whose text matches UNIV_HINT.
ner_score(nlpOn, ents, txt, field) ==
    IF ~nlpOn \/ txt = <<>> THEN 0
    ELSE CASE field = "name" -> IF "PERSON" \in ents THEN 90 ELSE 0
           [] field \in CollegeFields -> IF "ORG_UNIV" \in ents THEN 90 ELSE 0
           [] field = "workExperience" ->
                IF ents \cap {"ORG", "ORG_UNIV", "PERSON"} # {} THEN 60 ELSE 0
           [] OTHER -> 0

\* the per-field weights (regex, length, section, ner, embed), in hundredths
Weights(field) ==
    CASE field = "name" -> <<40, 20, 20, 20, 0>>
      [] field \in CollegeFields -> <<15, 25, 35, 15, 10>>
      [] field = "degree" -> <<10, 30, 30, 15, 15>>
      [] field = "certifications" -> <<10, 30, 20, 10, 30>>
      [] field = "workExperience" -> <<10, 30, 40, 15, 5>>
      [] field = "skills" -> <<5, 60, 10, 0, 25>>
      [] field = "summary" -> <<5, 40, 10, 0, 45>>
      [] field \in {"email", "phoneNumber"} -> <<100, 0, 0, 0, 0>>
      [] OTHER -> <<20, 30, 20, 10, 20>>

ConflictPenalty == -30

\* The weighted sum of score_candidate before the clamp (lines 206-238), as
\* a fraction over 10000 * (the length penalty's denominator).  c.emb is the
\* best cosine similarity to the field prototypes, in hundredths.
WeightedSum(w, s_regex, s_len, s_sect, s_ner, s_embed, conflict) ==
    Frac((w[1] * s_regex + w[3] * s_sect + w[4] * s_ner + w[5] * s_embed
          + conflict * Unit) * s_len.den
         + w[2] * Unit * s_len.num,
         Unit * Unit * s_len.den)

ScoreText(text, c, field, nlpOn, embedOn) ==
    WeightedSum(Weights(field),
                regex_score(text, field),
                length_penalty(text),
                section_boost(c.source, field),
                ner_score(nlpOn, c.ents, text, field),
                IF embedOn /\ text # <<>> THEN c.emb ELSE 0,
                IF field \in CollegeFields \cup {"degree"}
                   /\ ReFound(CONFLICT_RE, Lower(text))
                THEN ConflictPenalty ELSE 0)

RawScore(c, field, nlpOn, embedOn) ==
    ScoreText(clean_line(c.text), c, field, nlpOn, embedOn)

score_candidate_unclamped(c, field, nlpOn, embedOn) ==
    RawScore(c, field, nlpOn, embedOn)

\* score_candidate: max(0.0, min(1.0, score))
Clamp(r) == Frac(Max(0, Min(r.den, r.num)), r.den)
score_candidate(c, field, nlpOn, embedOn) ==
    Clamp(RawScore(c, field, nlpOn, embedOn))

PickStepLast(b, i, s) ==
    IF ~FracGt(b.score, s) THEN [idx |-> i, score |-> s] ELSE b

\* One turn of pick_best's loop: b = [idx, score] is the best so far
PickStep(b, i, s) == IF FracGt(s, b.score) THEN [idx |-> i, score |-> s] ELSE b

\* pick_best(field, candidates): the index of the candidate returned (0 for
\* None) and its score
RECURSIVE PickFrom(_, _, _, _, _, _)
PickFrom(b, i, cands, field, nlpOn, embedOn) ==
    IF i > Len(cands) THEN b
    ELSE PickFrom(PickStep(b, i, score_candidate(cands[i], field, nlpOn, embedOn)),
                  i + 1, cands, field, nlpOn, embedOn)

pick_best(field, cands, nlpOn, embedOn) ==
    PickFrom([idx |-> 0, score |-> FracZero], 1, cands, field, nlpOn, embedOn)

-----------------------------------------------------------------------------
(***************************************************************************)
(* The selector's loop over a candidate list                               *)
(***************************************************************************)
Cand(text, source, ents, emb) ==
    [text |-> text, source |-> source, ents |-> ents, emb |-> emb]

\* Candidates: two names that score alike, college lines with and without
\* narrative verbs, and the signals of the optional backends
CandPool ==
    {Cand(<<"J","o","h","n"," ","S","m","i","t","h">>, "contact", {"PERSON"}, 0),
     Cand(<<"J","a","n","e"," ","D","o","e">>, "contact", {"PERSON"}, 0),
     Cand(<<"J","o","h","n"," ","S","m","i","t","h">>, "", {}, 100),
     Cand(<<"M","I","T"," ","U","n","i","v","e","r","s","i","t","y"," ","2","0","1","9">>, "education", {"ORG_UNIV"}, 100),
     Cand(<<"S","t","a","t","e"," ","C","o","l","l","e","g","e">>, "education", {}, 50),
     Cand(<<"c","u","r","r","e","n","t","l","y"," ","p","u","r","s","u","i","n","g"," ","a"," ","d","e","g","r","e","e"," ","a","n","d"," ","s","e","e","k","i","n","g"," ","a"," ","n","e","w"," ","r","o","l","e">>, "", {}, -100),
     Cand(<<"A","W","S"," ","C","e","r","t","i","f","i","e","d"," ","t","r","a","i","n","i","n","g">>, "certifications", {}, 0),
     Cand(<<>>, "", {}, 0)}

ScoreFields == {"name", "ugCollegeName", "degree", "email", "highSchoolName"}

MaxCands == 2
CandLists == UNION {[1..n -> CandPool] : n \in 0..MaxCands}

InitScore ==
    /\ spc = "loop"
    /\ selField \in ScoreFields
    /\ selCands \in CandLists
    /\ selNlp \in BOOLEAN
    /\ selEmbed \in BOOLEAN
    /\ pi = 1
    /\ best = 0
    /\ best_score = FracZero
    /\ scores = <<>>
    /\ NormIdle
    /\ PipeIdle
    /\ BuildIdle
    /\ LoadIdle
    /\ SkillIdle
    /\ EmbedIdle
    /\ ApiIdle

\* one turn of "for c in candidates" (lines 247-251)
ScoreNext ==
    /\ spc = "loop"
    /\ pi <= Len(selCands)
    /\ scores' = Append(scores,
                        score_candidate(selCands[pi], selField, selNlp, selEmbed))
    /\ LET b == PickStep([idx |-> best, score |-> best_score], pi,
                         scores'[pi])
       IN best' = b.idx /\ best_score' = b.score
    /\ pi' = pi + 1
    /\ UNCHANGED <<spc, selField, selCands, selNlp, selEmbed, normVars,
                   pipeVars, buildVars, loadVars, skillVars, embedVars,
                   apiVars>>

\* return best, best_score (line 252)
PickReturn ==
    /\ spc = "loop"
    /\ pi > Len(selCands)
    /\ spc' = "returned"
    /\ UNCHANGED <<selField, selCands, selNlp, selEmbed, pi, best, best_score, scores,
                   normVars, pipeVars, buildVars, loadVars, skillVars,
                   embedVars, apiVars>>

NextScore == ScoreNext \/ PickReturn

SpecScore == InitScore /\ [][NextScore]_vars

\* C6: pick_best returns the candidate with the maximum score; among
\* candidates sharing the maximum it returns the first of the list; with no
\* candidate, or when every score is 0, it returns (None, 0.0).
C6_StableSelection ==
    spc = "returned" =>
        /\ best = pick_best(selField, selCands, selNlp, selEmbed).idx
        /\ IF \A i \in 1..Len(scores) : scores[i].num = 0
           THEN best = 0 /\ best_score = FracZero
           ELSE /\ best \in 1..Len(selCands)
                /\ best_score = scores[best]
                /\ \A i \in 1..Len(scores) : ~FracGt(scores[i], scores[best])
                /\ \A i \in 1..(best - 1) : FracGt(scores[best], scores[i])

\* C6 witness: two different candidates share the top score and the first
\* was returned
C6_Witness ==
    /\ spc = "returned"
    /\ Len(selCands) = 2
    /\ selCands[1] # selCands[2]
    /\ scores[1] = scores[2]
    /\ scores[1].num > 0
    /\ best = 1

\* C7: score_candidate returns a value in [0,1] for every candidate, selField
\* and combination of signals.
C7_ScoreInUnitInterval ==
    spc # Idle =>
        \A i \in 1..Len(scores) :
            /\ scores[i].den > 0
            /\ 0 <= scores[i].num
            /\ scores[i].num <= scores[i].den

\* C7 witness: a weighted sum pushed below 0 by the conflict penalty was
\* returned as 0
C7_Witness ==
    /\ spc = "loop"
    /\ scores # <<>>
    /\ RawScore(selCands[1], selField, selNlp, selEmbed).num < 0
    /\ scores[1].num = 0

-----------------------------------------------------------------------------
(***************************************************************************)
(* helpers/section_segmentation.py                                         *)
(***************************************************************************)
\* _CANONICAL_HEADINGS, in dict order: <<label, variants>>
_CANONICAL_HEADINGS ==
  <<<<"education",
      {<<"e","d","u","c","a","t","i","o","n">>,
       <<"a","c","a","d","e","m","i","c">>,
       <<"a","c","a","d","e","m","i","c"," ","b","a","c","k","g","r","o","u","n","d">>,
       <<"e","d","u","c","a","t","i","o","n"," ","a","n","d"," ","q","u","a","l","i","f","i","c","a","t","i","o","n","s">>,
       <<"e","d","u","c","a","t","i","o","n"," ","&"," ","q","u","a","l","i","f","i","c","a","t","i","o","n","s">>,
       <<"e","d","u","c","a","t","i","o","n"," ","&"," ","t","r","a","i","n","i","n","g">>}>>,
    <<"experience",
      {<<"e","x","p","e","r","i","e","n","c","e">>,
       <<"w","o","r","k"," ","e","x","p","e","r","i","e","n","c","e">>,
       <<"p","r","o","f","e","s","s","i","o","n","a","l"," ","e","x","p","e","r","i","e","n","c","e">>,
       <<"e","m","p","l","o","y","m","e","n","t"," ","h","i","s","t","o","r","y">>,
       <<"w","o","r","k"," ","h","i","s","t","o","r","y">>}>>,
    <<"skills",
      {<<"s","k","i","l","l","s">>,
       <<"t","e","c","h","n","i","c","a","l"," ","s","k","i","l","l","s">>,
       <<"s","k","i","l","l","s"," ","&"," ","t","e","c","h","n","o","l","o","g","i","e","s">>,
       <<"k","e","y"," ","s","k","i","l","l","s">>}>>,
    <<"certifications",
      {<<"c","e","r","t","i","f","i","c","a","t","i","o","n","s">>,
       <<"c","e","r","t","i","f","i","c","a","t","e","s">>,
       <<"p","r","o","f","e","s","s","i","o","n","a","l"," ","c","e","r","t","i","f","i","c","a","t","i","o","n","s">>}>>,
    <<"publications",
      {<<"p","u","b","l","i","c","a","t","i","o","n","s">>,
       <<"r","e","s","e","a","r","c","h">>, <<"p","a","p","e","r","s">>,
       <<"r","e","s","e","a","r","c","h"," ","p","u","b","l","i","c","a","t","i","o","n","s">>}>>,
    <<"achievements",
      {<<"a","c","h","i","e","v","e","m","e","n","t","s">>,
       <<"a","w","a","r","d","s">>, <<"h","o","n","o","r","s">>,
       <<"d","i","s","t","i","n","c","t","i","o","n","s">>}>>,
    <<"extracurricular",
      {<<"e","x","t","r","a","c","u","r","r","i","c","u","l","a","r">>,
       <<"e","x","t","r","a","-","c","u","r","r","i","c","u","l","a","r">>,
       <<"a","c","t","i","v","i","t","i","e","s">>,
       <<"i","n","t","e","r","e","s","t","s">>,
       <<"e","x","t","r","a","c","u","r","r","i","c","u","l","a","r"," ","a","c","t","i","v","i","t","i","e","s">>}>>,
    <<"test_scores",
      {<<"t","e","s","t"," ","s","c","o","r","e","s">>,
       <<"s","c","o","r","e","s">>,
       <<"s","t","a","n","d","a","r","d","i","z","e","d"," ","t","e","s","t","s">>,
       <<"e","x","a","m","s">>}>>,
    <<"summary",
      {<<"s","u","m","m","a","r","y">>, <<"p","r","o","f","i","l","e">>,
       <<"p","r","o","f","e","s","s","i","o","n","a","l"," ","s","u","m","m","a","r","y">>,
       <<"o","b","j","e","c","t","i","v","e">>,
       <<"c","a","r","e","e","r"," ","o","b","j","e","c","t","i","v","e">>}>>,
    <<"contact",
      {<<"c","o","n","t","a","c","t">>,
       <<"c","o","n","t","a","c","t"," ","i","n","f","o","r","m","a","t","i","o","n">>,
       <<"p","e","r","s","o","n","a","l"," ","d","e","t","a","i","l","s">>}>>>>

\* HEADING_KEYS, in dict order: <<label, the alternatives of its pattern>>
HEADING_KEYS ==
  <<<<"education",
      {<<"e","d","u","c","a","t","i","o","n">>,
       <<"a","c","a","d","e","m","i","c">>,
       <<"q","u","a","l","i","f","i","c","a","t","i","o","n">>,
       <<"d","e","g","r","e","e">>}>>,
    <<"experience",
      {<<"e","x","p","e","r","i","e","n","c","e">>,
       <<"e","m","p","l","o","y","m","e","n","t">>,
       <<"w","o","r","k"," ","h","i","s","t","o","r","y">>,
       <<"p","r","o","f","e","s","s","i","o","n","a","l"," ","e","x","p","e","r","i","e","n","c","e">>}>>,
    <<"skills",
      {<<"s","k","i","l","l","s">>,
       <<"t","e","c","h","n","i","c","a","l"," ","s","k","i","l","l","s">>,
       <<"c","o","m","p","e","t","e","n","c">>}>>,
    <<"certifications",
      {<<"c","e","r","t","i","f">>,
       <<"c","e","r","t","i","f","i","c","a","t","e">>}>>,
    <<"publications",
      {<<"p","u","b","l","i","c","a","t","i","o","n">>,
       <<"p","a","p","e","r">>, <<"j","o","u","r","n","a","l">>,
       <<"c","o","n","f","e","r","e","n","c","e">>}>>,
    <<"achievements",
      {<<"a","w","a","r","d">>,
       <<"a","c","h","i","e","v","e","m","e","n","t">>,
       <<"h","o","n","o","r">>,
       <<"d","i","s","t","i","n","c","t","i","o","n">>}>>,
    <<"extracurricular",
      {<<"e","x","t","r","a","c","u","r","r","i","c","u","l","a","r">>,
       <<"a","c","t","i","v","i","t","i","e","s">>,
       <<"i","n","t","e","r","e","s","t","s">>}>>,
    <<"test_scores",
      {<<"t","o","e","f","l">>, <<"i","e","l","t","s">>, <<"g","r","e">>,
       <<"g","m","a","t">>, <<"s","a","t">>, <<"a","c","t">>,
       <<"t","e","s","t"," ","s","c","o","r","e">>,
       <<"s","c","o","r","e","s">>}>>,
    <<"summary",
      {<<"s","u","m","m","a","r","y">>,
       <<"o","b","j","e","c","t","i","v","e">>,
       <<"p","r","o","f","i","l","e">>}>>,
    <<"contact",
      {<<"c","o","n","t","a","c","t">>,
       <<"p","e","r","s","o","n","a","l"," ","d","e","t","a","i","l","s">>,
       <<"a","d","d","r","e","s","s">>, <<"p","h","o","n","e">>}>>>>

CanonicalLabels ==
    [i \in 1..Len(_CANONICAL_HEADINGS) |-> _CANONICAL_HEADINGS[i][1]]
\* every variant of every canonical heading
CanonicalVariants ==
    UNION {_CANONICAL_HEADINGS[i][2] : i \in 1..Len(_CANONICAL_HEADINGS)}

\* HEADING_RE = ^[A-Z][A-Za-z\s\&\-]{2,60}$
HEADING_RE ==
    Cat(<<Bol, Chr(UpperAZ), Rep(Chr(Alpha \cup Space \cup {"&", "-"}), 2, 60),
          Eol>>)

\* text.splitlines(): the text between line breaks, without a last empty
\* piece
SplitLines(text) ==
    IF text = <<>> THEN <<>>
    ELSE IF text[Len(text)] = NL
         THEN SplitOn(SubSeq(text, 1, Len(text) - 1), {NL})
         ELSE SplitOn(text, {NL})

\* paragraphs.append("\n".join(cur).strip()) when cur is not empty
Flush(cur) == IF cur = <<>> THEN <<>> ELSE <<Strip(Join(cur, <<NL>>))>>

\* the paragraphs: runs of non-blank lines (lines 105-115)
RECURSIVE Paragraphs(_, _)
Paragraphs(lines, cur) ==
    IF lines = <<>> THEN Flush(cur)
    ELSE IF Strip(Head(lines)) = <<>>
         THEN Flush(cur) \o Paragraphs(Tail(lines), <<>>)
         ELSE Paragraphs(Tail(lines), Append(cur, RStrip(Head(lines))))

\* a short paragraph that looks like a heading (lines 120-125)
IsHeadingCandidate(p) ==
    /\ Len(Words(p)) <= 6
    /\ Len(p) <= 60
    /\ \/ ReMatch(<<HEADING_RE>>, p, 0) >= 0
       \/ ContainsAny(Lower(p), CanonicalVariants)

\* p.splitlines()[0]
FirstLine(p) == SplitLines(p)[1]

\* candidates: paragraph index -> heading text (lines 118-133)
ParagraphCandidates(paras) ==
    [i \in {j \in 1..Len(paras) : IsHeadingCandidate(paras[j])} |-> paras[i]]
FirstLineCandidates(paras) ==
    [i \in {j \in 1..Len(paras) :
              ReMatch(<<HEADING_RE>>, FirstLine(paras[j]), 0) >= 0}
       |-> FirstLine(paras[i])]
OrFallback(cands, paras) ==
    IF DOMAIN cands # {} THEN cands ELSE FirstLineCandidates(paras)
Candidates(paras) == OrFallback(ParagraphCandidates(paras), paras)

\* The label the embedding backend gives a heading with a score of at
\* least 0.45, "" when it gives none.  What the backend answers is the
\* library's choice:
\*   "absent"  sentence-transformers is not installed: (None, 0.0)
\*   "keyword" the label whose variants include the heading, else a weak score
\*   "skew"    "summary" for every heading
\*   "fails"   the model loads, and its encode raises when a heading is
\*             scored (line 71); no label comes back, see SplitRaises
EmbedModes == {"absent", "keyword", "skew", "fails"}
RECURSIVE VariantLabel(_, _)
VariantLabel(low, k) ==
    IF k > Len(_CANONICAL_HEADINGS) THEN ""
    ELSE IF low \in _CANONICAL_HEADINGS[k][2] THEN _CANONICAL_HEADINGS[k][1]
    ELSE VariantLabel(low, k + 1)
_score_and_label_heading(heading_text, mode) ==
    CASE mode = "absent"  -> ""
      [] mode = "keyword" -> VariantLabel(Lower(Strip(heading_text)), 1)
      [] mode = "skew"    -> "summary"

\* the first HEADING_KEYS label whose pattern is found in low, else ""
RECURSIVE KeyLabel(_, _)
KeyLabel(low, k) ==
    IF k > Len(HEADING_KEYS) THEN ""
    ELSE IF ContainsAny(low, HEADING_KEYS[k][2]) THEN HEADING_KEYS[k][1]
    ELSE KeyLabel(low, k + 1)

OrLabel(a, b) == IF a # "" THEN a ELSE b
\* the label of one candidate heading (lines 139-156)
HeadingLabel(heading, mode) ==
    OrLabel(_score_and_label_heading(heading, mode), KeyLabel(Lower(heading), 1))

\* idx2label: the labelled candidates (lines 161-164)
Labelled(labels) == [i \in {j \in DOMAIN labels : labels[j] # ""} |-> labels[i]]
Idx2Label(cands, mode) ==
    Labelled([i \in DOMAIN cands |-> HeadingLabel(cands[i], mode)])

\* result.setdefault(key, "")
SetDefault(d, key) == IF key \in DOMAIN d THEN d ELSE Put(d, key, <<>>)

\* (a walk in which a paragraph replaces what its label has so far)
RECURSIVE WalkOverwrite(_, _, _, _, _)
WalkOverwrite(paras, i, idx2label, current_label, result) ==
    IF i > Len(paras) THEN result
    ELSE IF i \in DOMAIN idx2label
         THEN WalkOverwrite(paras, i + 1, idx2label, idx2label[i],
                            SetDefault(result, idx2label[i]))
         ELSE WalkOverwrite(paras, i + 1, idx2label, current_label,
                            Put(result, current_label, paras[i]))

\* the walk over the paragraphs (lines 168-178)
RECURSIVE Walk(_, _, _, _, _)
Walk(paras, i, idx2label, current_label, result) ==
    IF i > Len(paras) THEN result
    ELSE IF i \in DOMAIN idx2label
         THEN Walk(paras, i + 1, idx2label, idx2label[i],
                   SetDefault(result, idx2label[i]))
         ELSE Walk(paras, i + 1, idx2label, current_label,
                   Put(result, current_label,
                       Strip(Get(result, current_label, <<>>)
                             \o <<NL, NL>> \o paras[i])))

\* (education|experience|skills|certif|publications|achievement), re.I
SplitKeywordRe ==
    AltLit(<<<<"e","d","u","c","a","t","i","o","n">>,
             <<"e","x","p","e","r","i","e","n","c","e">>,
             <<"s","k","i","l","l","s">>,
             <<"c","e","r","t","i","f">>,
             <<"p","u","b","l","i","c","a","t","i","o","n","s">>,
             <<"a","c","h","i","e","v","e","m","e","n","t">>>>)

\* re.split with a capturing group: the text between the matches ms and
\* the matched keywords, alternating, from offset pos on
RECURSIVE SplitKeep(_, _, _)
SplitKeep(s, ms, pos) ==
    IF ms = <<>> THEN <<Slice(s, pos, Len(s))>>
    ELSE <<Slice(s, pos, Head(ms).st), Span(s, Head(ms))>>
         \o SplitKeep(s, Tail(ms), Head(ms).en)

\* top = parts[0].strip(); other = "\n".join(parts[1:]).strip()
TopAndOther(parts) ==
    ("top" :> Strip(Head(parts))) @@ ("other" :> Strip(Join(Tail(parts), <<NL>>)))

\* no labelled heading: top + other (lines 181-191)
NaiveSplit(joined) ==
    IF Contains(Lower(joined), <<"e","d","u","c","a","t","i","o","n">>)
    THEN TopAndOther(SplitKeep(joined,
                               ReFindAll(SplitKeywordRe, Lower(joined), 0), 0))
    ELSE ("top" :> joined)

RECURSIVE SetDefaults(_, _)
SetDefaults(d, keys) ==
    IF keys = <<>> THEN d
    ELSE SetDefaults(SetDefault(d, Head(keys)), Tail(keys))

Aggregate(paras, idx2label) ==
    IF DOMAIN idx2label # {}
    THEN Walk(paras, 1, idx2label, "top", <<>>)
    ELSE NaiveSplit(Join(paras, <<NL, NL>>))

SectionsOf(paras, mode) ==
    SetDefaults(Aggregate(paras, Idx2Label(Candidates(paras), mode)),
                CanonicalLabels \o <<"top", "other">>)

\* split_into_sections(text): label -> section text; the empty function is {}
split_into_sections(text, mode) ==
    IF Strip(text) = <<>> THEN <<>>
    ELSE SectionsOf(Paragraphs(SplitLines(text), <<>>), mode)

\* The call of _score_and_label_heading for the first candidate (line 139)
\* is outside any try block: what encode raises leaves split_into_sections
HeadingCallRaises(paras, mode) ==
    mode = "fails" /\ DOMAIN Candidates(paras) # {}
SplitRaises(text, mode) ==
    /\ Strip(text) # <<>>
    /\ HeadingCallRaises(Paragraphs(SplitLines(text), <<>>), mode)

-----------------------------------------------------------------------------
(***************************************************************************)
(* helpers/field_extraction.py                                             *)
(***************************************************************************)
AlNum == Alpha \cup Digit
\* EMAIL_RE = [a-zA-Z0-9_.+-]+@[a-zA-Z0-9-]+\.[a-zA-Z0-9-.]+
EMAIL_RE ==
    Cat(<<Plus(Chr(AlNum \cup {"_", ".", "+", "-"})), Chr({"@"}),
          Plus(Chr(AlNum \cup {"-"})), Chr({"."}),
          Plus(Chr(AlNum \cup {"-", "."}))>>)
\* [\s-]?
SepOpt == Opt(Chr(Space \cup {"-"}))
\* PHONE_RE = (\+?\d{1,3}[\s-]?)?(?:\(?\d{2,4}\)?[\s-]?)?\d{3,4}[\s-]?\d{3,4}
PHONE_RE ==
    Cat(<<Opt(Cat(<<Opt(Chr({"+"})), Rep(Chr(Digit), 1, 3), SepOpt>>)),
          Opt(Cat(<<Opt(Chr({"("})), Rep(Chr(Digit), 2, 4), Opt(Chr({")"})),
                    SepOpt>>)),
          Rep(Chr(Digit), 3, 4), SepOpt, Rep(Chr(Digit), 3, 4)>>)
\* the function-local YEAR_RE = (19|20)\d{2}
Year4Re == Cat(<<AltLit(<<<<"1","9">>, <<"2","0">>>>), Rep(Chr(Digit), 2, 2)>>)
\* RANGE_RE = (19|20)\d{2}\s*[-–—]\s*(Present|(19|20)\d{2}), re.I
RANGE_RE ==
    Cat(<<Year4Re, Star(Chr(Space)), Chr({"-", ENDASH, EMDASH}), Star(Chr(Space)),
          Alt(<<Lit(<<"p","r","e","s","e","n","t">>), Year4Re>>)>>)
\* (19|20)\d{2}.*
YearToEndRe == Cat(<<Year4Re, Star(NotChr({NL}))>>)
\* \+?\d{7,}
LongDigitsRe == Cat(<<Opt(Chr({"+"})), Rep(Chr(Digit), 7, -1)>>)

\* TITLE_RE, re.I: \b(software engineer|...|full[- ]?stack developer|...|intern)\b
TITLE_RE ==
    Cat(<<Wb,
          Alt(<<Lit(<<"s","o","f","t","w","a","r","e"," ","e","n","g","i","n","e","e","r">>),
                Lit(<<"s","e","n","i","o","r"," ","s","o","f","t","w","a","r","e"," ","e","n","g","i","n","e","e","r">>),
                Lit(<<"j","u","n","i","o","r"," ","s","o","f","t","w","a","r","e"," ","e","n","g","i","n","e","e","r">>),
                Cat(<<Lit(<<"f","u","l","l">>), Opt(Chr({"-", " "})),
                Lit(<<"s","t","a","c","k"," ","d","e","v","e","l","o","p","e","r">>)>>),
                Lit(<<"b","a","c","k","e","n","d"," ","d","e","v","e","l","o","p","e","r">>),
                Lit(<<"f","r","o","n","t","e","n","d"," ","d","e","v","e","l","o","p","e","r">>),
                Lit(<<"j","a","v","a"," ","d","e","v","e","l","o","p","e","r">>),
                Lit(<<"p","y","t","h","o","n"," ","d","e","v","e","l","o","p","e","r">>),
                Lit(<<"w","e","b"," ","d","e","v","e","l","o","p","e","r">>),
                Lit(<<"d","a","t","a"," ","e","n","g","i","n","e","e","r">>),
                Lit(<<"d","a","t","a"," ","a","n","a","l","y","s","t">>),
                Lit(<<"m","l"," ","e","n","g","i","n","e","e","r">>),
                Lit(<<"a","i"," ","e","n","g","i","n","e","e","r">>),
                Lit(<<"s","e","c","u","r","i","t","y"," ","e","n","g","i","n","e","e","r">>),
                Lit(<<"c","y","b","e","r","s","e","c","u","r","i","t","y"," ","a","n","a","l","y","s","t">>),
                Lit(<<"s","o","c"," ","a","n","a","l","y","s","t">>),
                Lit(<<"d","e","s","i","g","n","e","r">>),
                Lit(<<"w","e","b"," ","d","e","s","i","g","n","e","r">>),
                Lit(<<"u","i","/","u","x"," ","d","e","s","i","g","n","e","r">>),
                Lit(<<"a","r","c","h","i","t","e","c","t">>),
                Lit(<<"c","o","n","s","u","l","t","a","n","t">>),
                Lit(<<"l","e","a","d">>),
                Lit(<<"m","a","n","a","g","e","r">>),
                Lit(<<"i","n","t","e","r","n">>)>>),
          Wb>>)

\* ACTION_VERBS, re.I: \b(developed|implemented|...|integrated)\b
ACTION_VERBS ==
    Cat(<<Wb,
          AltLit(<<<<"d","e","v","e","l","o","p","e","d">>,
                 <<"i","m","p","l","e","m","e","n","t","e","d">>,
                 <<"d","e","s","i","g","n","e","d">>,
                 <<"b","u","i","l","t">>,
                 <<"m","a","n","a","g","e","d">>,
                 <<"l","e","d">>,
                 <<"w","o","r","k","e","d">>,
                 <<"m","a","i","n","t","a","i","n","e","d">>,
                 <<"c","r","e","a","t","e","d">>,
                 <<"o","p","t","i","m","i","z","e","d">>,
                 <<"c","o","n","f","i","g","u","r","e","d">>,
                 <<"d","e","p","l","o","y","e","d">>,
                 <<"i","n","t","e","g","r","a","t","e","d">>>>),
          Wb>>)

REJECT_WORDS ==
    {<<"u","n","i","v","e","r","s","i","t","y">>,
     <<"c","o","l","l","e","g","e">>,
     <<"s","c","h","o","o","l">>,
     <<"b","a","c","h","e","l","o","r">>,
     <<"m","a","s","t","e","r">>,
     <<"p","h","d">>,
     <<"c","e","r","t","i","f","i","c","a","t","e">>,
     <<"c","e","r","t","i","f","i","e","d">>,
     <<"t","r","a","i","n","i","n","g">>,
     <<"e","x","p","e","c","t","e","d"," ","g","r","a","d","u","a","t","i","o","n">>,
     <<"s","k","i","l","l","s">>,
     <<"p","r","o","f","i","l","e">>,
     <<"s","u","m","m","a","r","y">>}

BAD_ORG_TOKENS ==
    {<<"l","o","r","e","m">>,
     <<"i","p","s","u","m">>,
     <<"p","r","o","f","i","l","e">>,
     <<"s","u","m","m","a","r","y">>,
     <<"a","b","o","u","t">>,
     <<"c","h","i","c","a","g","o">>,
     <<"t","e","x","a","s">>,
     <<"i","n","d","i","a">>,
     <<"m","i","s","s","o","u","r","i">>}

DEGREE_WORDS ==
    {<<"b","a","c","h","e","l","o","r">>,
     <<"b",".","s","c">>,
     <<"b","t","e","c","h">>,
     <<"b",".","t","e","c","h">>,
     <<"b","c","a">>,
     <<"m","a","s","t","e","r">>,
     <<"m",".","s","c">>,
     <<"m","t","e","c","h">>,
     <<"m",".","t","e","c","h">>,
     <<"m","s","c">>,
     <<"p","h","d">>,
     <<"d","o","c","t","o","r","a","t","e">>,
     <<"a","s","s","o","c","i","a","t","e">>,
     <<"d","i","p","l","o","m","a">>}

BAD_WORDS ==
    {<<"p","r","o","f","i","l","e">>,
     <<"s","u","m","m","a","r","y">>,
     <<"e","x","p","e","r","i","e","n","c","e">>,
     <<"s","k","i","l","l","s">>,
     <<"p","r","o","j","e","c","t">>,
     <<"c","o","n","t","a","c","t">>,
     <<"e","m","a","i","l">>,
     <<"p","h","o","n","e">>,
     <<"p","o","r","t","f","o","l","i","o">>}

\* _is_noise_line.BAD
NoiseWords ==
    {<<"p","r","o","f","i","l","e">>,
     <<"s","u","m","m","a","r","y">>,
     <<"s","k","i","l","l","s">>,
     <<"e","x","p","e","r","i","e","n","c","e">>,
     <<"c","o","n","t","a","c","t">>,
     <<"p","o","r","t","f","o","l","i","o">>,
     <<"g","i","t","h","u","b">>,
     <<"l","i","n","k","e","d","i","n">>}

\* the undergraduate keywords (line 540)
UgKeywords ==
    {<<"b","a","c","h","e","l","o","r">>,
     <<"b",".","s","c">>,
     <<"b",".","t","e","c","h">>}

\* the postgraduate keywords (line 546)
PgKeywords ==
    {<<"m","a","s","t","e","r">>,
     <<"m",".","s","c">>,
     <<"m",".","t","e","c","h">>,
     <<"p","h","d">>}

\* _extract_name_strict.BAD
NameBad ==
    {<<"p","r","o","f","i","l","e">>,
     <<"s","u","m","m","a","r","y">>,
     <<"r","e","s","u","m","e">>,
     <<"c","v">>,
     <<"c","o","n","t","a","c","t">>,
     <<"e","d","u","c","a","t","i","o","n">>,
     <<"e","x","p","e","r","i","e","n","c","e">>,
     <<"s","k","i","l","l","s">>,
     <<"p","r","o","j","e","c","t","s">>,
     <<"v","i","s","a"," ","s","t","a","t","u","s">>,
     <<"a","b","o","u","t"," ","m","e">>}

\* _clean_field.BAD
FieldBad ==
    {<<"p","r","o","f","i","l","e"," ","s","u","m","m","a","r","y">>,
     <<"r","e","s","u","m","e">>,
     <<"c","v">>,
     <<"c","o","n","t","a","c","t">>,
     <<"s","k","i","l","l","s">>,
     <<"e","x","p","e","r","i","e","n","c","e">>,
     <<"e","x","p","e","c","t","e","d"," ","g","r","a","d","u","a","t","i","o","n">>}

\* (certif|certificate|certified|exam|course|professional), re.I
CertWords ==
    {<<"c","e","r","t","i","f">>,
     <<"c","e","r","t","i","f","i","c","a","t","e">>,
     <<"c","e","r","t","i","f","i","e","d">>,
     <<"e","x","a","m">>,
     <<"c","o","u","r","s","e">>,
     <<"p","r","o","f","e","s","s","i","o","n","a","l">>}

\* _clean(s): re.sub(r"\s+", " ", s).strip()
_clean(s) == Strip(CollapseWs(s))

HasDigit(s) == \E i \in 1..Len(s) : s[i] \in Digit
DigitCount(s) == Len(SelectSeq(s, LAMBDA c : c \in Digit))

\* m.group(0).strip() if m else None; <<>> stands for None
StripSpan(s, m) == IF m.st < 0 THEN <<>> ELSE Strip(Span(s, m))
_first_match(pattern, text) == StripSpan(text, ReSearch(pattern, text))
StripSpans(s, ms) == [i \in 1..Len(ms) |-> Strip(Span(s, ms[i]))]
_find_all(pattern, text) == StripSpans(text, ReFindAll(pattern, text, 0))

\* phones.sort(key=digits, reverse=True); phones[0]: the first of those
\* with the most digits (the sort is stable)
MostDigits(phones) ==
    IF phones = <<>> THEN <<>>
    ELSE phones[CHOOSE i \in 1..Len(phones) :
                  /\ \A j \in 1..Len(phones) :
                        DigitCount(phones[j]) <= DigitCount(phones[i])
                  /\ \A j \in 1..(i - 1) :
                        DigitCount(phones[j]) < DigitCount(phones[i])]

\* extract_contact_from_text(text): email and phoneNumber
extract_contact_from_text(text) ==
    [email |-> _first_match(EMAIL_RE, text),
     phoneNumber |-> MostDigits(_find_all(PHONE_RE, text))]

\* _TEST_SCORE_KEYS: key -> its variant
TestScoreVariant ==
    [sat |-> <<"s","a","t">>, act |-> <<"a","c","t">>, gre |-> <<"g","r","e">>,
     gmat |-> <<"g","m","a","t">>, toefl |-> <<"t","o","e","f","l">>,
     ielts |-> <<"i","e","l","t","s">>]
\* rf"{v}[^0-9]*?(\d{2,4})", re.I.  Before a digit the lazy [^0-9]*? and
\* the greedy [^0-9]* match the same run.
ScoreRe(v) == Cat(<<Lit(v), Star(NotChr(Digit)), Rep(Chr(Digit), 2, 4)>>)
\* m.group(1): the digits that end the match
TrailingDigits(s) ==
    SubSeq(s, 1 + Max(0, (CHOOSE i \in 0..Len(s) :
                            /\ i = 0 \/ s[i] \notin Digit
                            /\ \A j \in (i + 1)..Len(s) : s[j] \in Digit)),
           Len(s))
ScoreOf(text, m) == IF m.st < 0 THEN <<>> ELSE TrailingDigits(Span(text, m))
extract_test_scores_found_only(text) ==
    JDict([k \in {x \in TestScoreKeys :
                    ReFound(ScoreRe(TestScoreVariant[x]), Lower(text))} |->
             JStr(ScoreOf(text, ReSearch(ScoreRe(TestScoreVariant[k]), Lower(text))))])
extract_test_scores_from_section(text) ==
    JDict([k \in TestScoreKeys |->
             JStr(ScoreOf(text, ReSearch(ScoreRe(TestScoreVariant[k]), Lower(text))))])

\* list(dict.fromkeys(xs)): the first occurrences, in order
RECURSIVE Dedupe(_, _)
Dedupe(xs, seen) ==
    IF xs = <<>> THEN <<>>
    ELSE IF Head(xs) \in seen THEN Dedupe(Tail(xs), seen)
    ELSE <<Head(xs)>> \o Dedupe(Tail(xs), seen \cup {Head(xs)})

\* one stripped part is kept as a certification (lines 146-158)
IsCertPart(p) ==
    /\ Len(p) >= 4
    /\ \/ ContainsAny(Lower(p), CertWords)
       \/ Len(Words(p)) <= 6 /\ HasDigit(p)
CleanEach(ps) == [i \in 1..Len(ps) |-> _clean(ps[i])]
CertParts(parts) == Dedupe(CleanEach(SelectSeq(parts, IsCertPart)), {})
\* extract_certifications_from_section(text): re.split(r"\n|;|,|\t", text)
extract_certifications_from_section(text) ==
    CertParts(StripEach(SplitOn(text, {NL, ";", ",", TAB})))

\* _is_noise_line(s) (lines 182-194)
_is_noise_line(s) ==
    \/ Contains(s, <<"@">>)
    \/ Contains(s, <<"h","t","t","p">>)
    \/ ReFound(LongDigitsRe, s)
    \/ Len(Words(s)) > 20
    \/ ContainsAny(Lower(s), NoiseWords)

IsEducationLine(ln) ==
    /\ ~_is_noise_line(ln)
    /\ ~ContainsAny(Lower(ln), BAD_WORDS)
    /\ ContainsAny(Lower(ln), DEGREE_WORDS)
\* ym.group(0) if ym else ""
EduYear(ln, m) == IF m.st < 0 THEN <<>> ELSE Span(ln, m)
EduEntry(ln) ==
    [collegeName |-> ln, degree |-> ln, major |-> <<>>,
     graduationYear |-> EduYear(ln, ReSearch(Year4Re, ln))]
EduEntries(lines) == [i \in 1..Len(lines) |-> EduEntry(lines[i])]
FirstTwo(xs) == SubSeq(xs, 1, Min(2, Len(xs)))
\* extract_education_blocks({"education": text}): entries[:2]
extract_education_blocks(text) ==
    FirstTwo(EduEntries(SelectSeq(StrippedLines(text), IsEducationLine)))

IsUg(edu) == ContainsAny(Lower(edu.degree), UgKeywords)
IsPg(edu) == ~IsUg(edu) /\ ContainsAny(Lower(edu.degree), PgKeywords)
\* one turn of "for edu in edu_entries" (lines 537-550)
AssignEdu(p, edu) ==
    IF IsUg(edu)
    THEN [p EXCEPT !["ugCollegeName"] = JStr(edu.collegeName),
                   !["ugDegree"] = JStr(edu.degree),
                   !["ugMajor"] = JStr(edu.major),
                   !["ugGraduationYear"] = JStr(edu.graduationYear)]
    ELSE IF IsPg(edu)
    THEN [p EXCEPT !["pgCollegeName"] = JStr(edu.collegeName),
                   !["pgDegree"] = JStr(edu.degree),
                   !["pgMajor"] = JStr(edu.major),
                   !["pgGraduationYear"] = JStr(edu.graduationYear)]
    ELSE p
RECURSIVE AssignAll(_, _)
AssignAll(p, entries) ==
    IF entries = <<>> THEN p
    ELSE AssignAll(AssignEdu(p, Head(entries)), Tail(entries))

\* extract_job_title_strict: the title in one line, <<>> when the line is
\* skipped or names none (lines 271-278)
TitleSpan(low, m) == IF m.st < 0 THEN <<>> ELSE Title(Span(low, m))
TitleSearch(low) == TitleSpan(low, ReSearch(TITLE_RE, low))
TitleOf(ln) ==
    IF Len(Words(ln)) > 8 \/ ReFound(Year4Re, ln) THEN <<>>
    ELSE TitleSearch(Lower(ln))
OrText(a, b) == IF a # <<>> THEN a ELSE b
extract_job_title_strict(lines) ==
    IF lines = <<>> THEN <<>>
    ELSE OrText(TitleOf(lines[1]),
                IF Len(lines) > 1 THEN TitleOf(lines[2]) ELSE <<>>)

\* STEP 1: a line with a year starts a new block (lines 289-297)
Close(current) == IF current = <<>> THEN <<>> ELSE <<current>>
RECURSIVE GroupBlocks(_, _)
GroupBlocks(lines, current) ==
    IF lines = <<>> THEN Close(current)
    ELSE IF ReFound(Year4Re, Head(lines))
         THEN Close(current) \o GroupBlocks(Tail(lines), <<Head(lines)>>)
         ELSE GroupBlocks(Tail(lines), Append(current, Head(lines)))

\* m.group(2) of RANGE_RE: "Present" as written, or the second year
RangeEnd(s) ==
    IF s[Len(s)] \in Digit THEN SubSeq(s, Len(s) - 3, Len(s))
    ELSE SubSeq(s, Len(s) - 6, Len(s))
\* re.findall(r"(19|20)\d{2}", text): the group of each match
YearGroups(text, ms) == [i \in 1..Len(ms) |-> Slice(text, ms[i].st, ms[i].st + 2)]
FoundYears(years) ==
    IF years = <<>> THEN [ok |-> FALSE, start |-> <<>>, end |-> <<>>]
    ELSE [ok |-> TRUE, start |-> years[1],
          end |-> IF Len(years) > 1 THEN years[2] ELSE <<>>]
\* start = m.group(1); end = m.group(2), else the findall fallback
\* (lines 309-319)
RangeYears(text, m) ==
    IF m.st >= 0
    THEN [ok |-> TRUE, start |-> Slice(text, m.st, m.st + 2),
          end |-> RangeEnd(Span(text, m))]
    ELSE FoundYears(YearGroups(text, ReFindAll(Year4Re, text, 0)))
YearsOf(text) == RangeYears(text, ReSearch(RANGE_RE, Lower(text)))

\* re.sub(pattern, "", s) for the matches ms found in s.lower()
RECURSIVE RemoveSpans(_, _, _)
RemoveSpans(s, ms, pos) ==
    IF ms = <<>> THEN Slice(s, pos, Len(s))
    ELSE Slice(s, pos, Head(ms).st) \o RemoveSpans(s, Tail(ms), Head(ms).en)
\* re.sub(re.escape(title), "", org, flags=re.I) when the title is in org
CutTitle(org, title) ==
    IF title # <<>> /\ Contains(Lower(org), Lower(title))
    THEN RemoveSpans(org, ReFindAll(Lit(Lower(title)), Lower(org), 0), 0)
    ELSE org
NotBadToken(w) == Lower(w) \notin BAD_ORG_TOKENS
\* re.split(r"[|/–—\-]", org)[0], the BAD_ORG_TOKENS filter and
\* strip(" ,:-") (lines 335-344)
TidyOrg(org) ==
    StripSet(Join(SelectSeq(Words(SplitOn(org, {"|", "/", ENDASH, EMDASH, "-"})[1]),
                            NotBadToken),
                  <<" ">>),
             {" ", ",", ":", "-"})
OrgOf(first, title) == TidyOrg(CutTitle(ReRemove(YearToEndRe, first, 0), title))

HasActionVerb(ln) == ReFound(ACTION_VERBS, Lower(ln))
FirstSix(xs) == SubSeq(xs, 1, Min(6, Len(xs)))
\* (details that take every line after the first)
DetailsOfAnyLine(rest) == FirstSix(StripEach(rest))
\* the first six lines after the first that name an action (lines 350-355)
DetailsOf(rest) == FirstSix(StripEach(SelectSeq(rest, HasActionVerb)))

\* results.append({...}) unless the block is skipped (lines 316-366)
BlockEntry(y, title, org, details) ==
    IF ~y.ok \/ Len(Words(org)) > 6 \/ details = <<>> THEN <<>>
    ELSE <<[organization |-> org, title |-> title, startYear |-> y.start,
            endYear |-> y.end, details |-> details]>>
TitledBlock(blk, y, title) ==
    BlockEntry(y, title, OrgOf(blk[1], title), DetailsOf(Tail(blk)))
ProcessBlock(blk) ==
    IF ContainsAny(Lower(Join(blk, <<" ">>)), REJECT_WORDS) THEN <<>>
    ELSE TitledBlock(blk, YearsOf(Join(blk, <<" ">>)),
                     extract_job_title_strict(blk))
RECURSIVE ProcessBlocks(_)
ProcessBlocks(blocks) ==
    IF blocks = <<>> THEN <<>>
    ELSE ProcessBlock(Head(blocks)) \o ProcessBlocks(Tail(blocks))

\* STEP 3: merge duplicates by (organization.lower(), startYear, endYear)
SameKey(a, b) ==
    /\ Lower(a.organization) = Lower(b.organization)
    /\ a.startYear = b.startYear
    /\ a.endYear = b.endYear
\* (a merge that keeps every entry apart)
MergeIntoKeepBoth(merged, exp) == Append(merged, exp)
MergeInto(merged, exp) ==
    IF \E i \in 1..Len(merged) : SameKey(merged[i], exp)
    THEN [i \in 1..Len(merged) |->
            IF SameKey(merged[i], exp)
            THEN [merged[i] EXCEPT
                    !.details = FirstSix(Dedupe(merged[i].details \o exp.details, {}))]
            ELSE merged[i]]
    ELSE Append(merged, exp)
RECURSIVE MergeAll(_, _)
MergeAll(merged, results) ==
    IF results = <<>> THEN merged
    ELSE MergeAll(MergeInto(merged, Head(results)), Tail(results))

\* extract_experience_blocks({"experience": text})
extract_experience_blocks(text) ==
    MergeAll(<<>>, ProcessBlocks(GroupBlocks(StrippedLines(text), <<>>)))

\* a list of str as a JSON list
StrList(xs) == JList([i \in 1..Len(xs) |-> JStr(xs[i])])
WorkJson(exps) ==
    JList([i \in 1..Len(exps) |->
             JDict([organization |-> JStr(exps[i].organization),
                    title |-> JStr(exps[i].title),
                    startYear |-> JStr(exps[i].startYear),
                    endYear |-> JStr(exps[i].endYear),
                    details |-> StrList(exps[i].details)])])

\* 2 <= len(parts) <= 4 and all(p[0].isupper() for p in parts)
CapitalizedTokens(parts) ==
    /\ Len(parts) >= 2
    /\ Len(parts) <= 4
    /\ \A i \in 1..Len(parts) : parts[i][1] \in UpperAZ
\* the header heuristic accepts the line (lines 501-508)
IsNameLine(ln) ==
    /\ ~ContainsAny(Lower(ln), NameBad)
    /\ ~Contains(ln, <<"@">>)
    /\ ~Contains(ln, <<"h","t","t","p">>)
    /\ ~HasDigit(ln)
    /\ CapitalizedTokens(Words(ln))
FirstFive(xs) == SubSeq(xs, 1, Min(5, Len(xs)))
FirstOr(xs, other) == IF xs = <<>> THEN other ELSE xs[1]

\* What the NER backend reports as PERSON entities is the library's choice:
\* with a handle ("on") it tags the first line of the text it is given.
NerModes == {"off", "on"}
NerPersons(text, mode) ==
    IF mode = "on" THEN FirstOr(StrippedLines(text), <<>>) ELSE <<>>
\* the validated NER fallback (lines 511-522)
NerName(val) ==
    IF val # <<>> /\ ~ContainsAny(Lower(val), NameBad) /\ Len(Words(val)) >= 2
       /\ Len(Words(val)) <= 4
    THEN val ELSE <<>>
\* _extract_name_strict(text, nlp): the header lines come from
\* sections.get("header", "")
_extract_name_strict(text, header_text, mode) ==
    FirstOr(SelectSeq(FirstFive(StrippedLines(header_text)), IsNameLine),
            NerName(Strip(NerPersons(text, mode))))

\* _clean_field(val) (lines 590-610)
_clean_field(val) ==
    IF \/ val = <<>>
       \/ ContainsAny(Lower(val), FieldBad)
       \/ Contains(val, <<"@">>)
       \/ Contains(val, <<"h","t","t","p">>)
       \/ ReFound(LongDigitsRe, val)
       \/ Len(Words(val)) > 12
    THEN <<>> ELSE Strip(val)

\* sections.get(key) or ""
SectionText(secs, key) == Get(secs, key, <<>>)
OrList(a, b) == IF a # <<>> THEN a ELSE b

\* step 8: _clean on every str value (lines 582-584)
CleanStrings(p) ==
    [k \in DOMAIN p |-> IF IsStr(p[k]) THEN JStr(_clean(p[k].s)) ELSE p[k]]
GuardedKeys == {"name", "ugCollegeName", "pgCollegeName", "ugDegree", "pgDegree"}
\* the schema guards (lines 613-617)
GuardFields(p) ==
    [k \in DOMAIN p |-> IF k \in GuardedKeys THEN JStr(_clean_field(p[k].s))
                        ELSE p[k]]

\* steps 1 and 3-7 on the record the education loop left (lines 483-579)
FillRecord(p, contact, name, work, certs, tests, pubs, achs) ==
    [p EXCEPT !["email"] = JStr(contact.email),
              !["phoneNumber"] = JStr(contact.phoneNumber),
              !["name"] = JStr(name),
              !["workExperience"] = WorkJson(work),
              !["certifications"] = StrList(certs),
              !["testScores"] = tests,
              !["researchPublications"] = StrList(pubs),
              !["achievements"] = StrList(achs)]

\* assemble_full_schema(raw_text, sections, nlp)
assemble_full_schema(text, secs, mode) ==
    GuardFields(CleanStrings(FillRecord(
        AssignAll(DefaultRecord,
                  extract_education_blocks(SectionText(secs, "education"))),
        extract_contact_from_text(text),
        _extract_name_strict(text, SectionText(secs, "header"), mode),
        extract_experience_blocks(SectionText(secs, "experience")),
        OrList(extract_certifications_from_section(
                   SectionText(secs, "certifications")),
               extract_certifications_from_section(text)),
        extract_test_scores_from_section(
            OrText(SectionText(secs, "test_scores"), text)),
        StrippedLines(SectionText(secs, "publications")),
        StrippedLines(SectionText(secs, "achievements")))))

-----------------------------------------------------------------------------
(***************************************************************************)
(* The pipeline: split_into_sections, assemble_full_schema and             *)
(* normalize_schema on the text of one document (api.py 89-91,             *)
(* helpers/batch_worker.py 92-115)                                         *)
(***************************************************************************)
\* Lines of the documents
L_JohnSmith ==
    <<"J", "o", "h", "n", " ", "S", "m", "i", "t", "h">>
L_Mail ==
    <<"j", "o", "h", "n", "@", "x", ".", "c", "o", "m">>
L_Contact ==
    <<"C", "O", "N", "T", "A", "C", "T">>
L_Education ==
    <<"E", "D", "U", "C", "A", "T", "I", "O", "N">>
L_BSc ==
    <<"B", "a", "c", "h", "e", "l", "o", "r", " ", "o", "f", " ", "S", "c",
      "i", "e", "n", "c", "e", ",", " ", "M", "I", "T", ",", " ", "2", "0",
      "1", "9">>
L_BA ==
    <<"B", "a", "c", "h", "e", "l", "o", "r", " ", "o", "f", " ", "A", "r",
      "t", "s", ",", " ", "Y", "a", "l", "e", ",", " ", "2", "0", "1", "5">>
L_MSc ==
    <<"M", "a", "s", "t", "e", "r", " ", "o", "f", " ", "S", "c", "i", "e",
      "n", "c", "e", ",", " ", "M", "I", "T", ",", " ", "2", "0", "2", "1">>
L_PhD ==
    <<"P", "h", "D", ",", " ", "Y", "a", "l", "e", ",", " ", "2", "0", "2",
      "4">>
L_Experience ==
    <<"E", "X", "P", "E", "R", "I", "E", "N", "C", "E">>
L_Job ==
    <<"S", "o", "f", "t", "w", "a", "r", "e", " ", "E", "n", "g", "i", "n",
      "e", "e", "r", ",", " ", "A", "c", "m", "e", " ", "I", "n", "c", ",",
      " ", "2", "0", "1", "9", "-", "2", "0", "2", "1">>
L_Globex ==
    <<"G", "l", "o", "b", "e", "x", ",", " ", "2", "0", "2", "0", "-", "P",
      "r", "e", "s", "e", "n", "t">>
L_Led ==
    <<"L", "e", "d", " ", "t", "h", "e", " ", "t", "e", "a", "m", ".">>
L_AcmeYears ==
    <<"A", "c", "m", "e", " ", "I", "n", "c", " ", "2", "0", "1", "8", " ",
      "2", "0", "2", "0">>
L_Built ==
    <<"B", "u", "i", "l", "t", " ", "t", "o", "o", "l", "s", ".">>

L_AcmeRange ==
    <<"A", "c", "m", "e", ",", " ", "2", "0", "1", "9", "-", "2", "0", "2",
      "1">>
L_AcmeUpper ==
    <<"A", "C", "M", "E", ",", " ", "2", "0", "1", "9", "-", "2", "0", "2",
      "1">>
L_BuiltA ==
    <<"B", "u", "i", "l", "t", " ", "a">>
L_BuiltB ==
    <<"B", "u", "i", "l", "t", " ", "b">>
L_BuiltC ==
    <<"B", "u", "i", "l", "t", " ", "c">>
L_LedD ==
    <<"L", "e", "d", " ", "d">>
L_LedE ==
    <<"L", "e", "d", " ", "e">>
L_LedF ==
    <<"L", "e", "d", " ", "f">>
L_LedG ==
    <<"L", "e", "d", " ", "g">>
\* "\n".join(lines) and "\n\n".join(paragraphs)
\* an education line with a postgraduate and an undergraduate keyword
L_MasterBachelor ==
    <<"M","a","s","t","e","r"," ","a","f","t","e","r"," ","B","a","c","h","e","l","o","r"," ","o","f"," ","S","c","i","e","n","c","e",","," ","M","I","T",","," ","2","0","2","1">>
\* a block without an action verb and a block with a reject word
L_Initech ==
    <<"I","n","i","t","e","c","h",","," ","2","0","1","5","-","2","0","1","7">>
L_Duties ==
    <<"D","u","t","i","e","s"," ","m","a","y"," ","i","n","c","l","u","d","e"," ","t","r","a","v","e","l">>
L_School ==
    <<"C","i","t","y"," ","S","c","h","o","o","l",","," ","2","0","1","0","-","2","0","1","2">>
Para(lines) == Join(lines, <<NL>>)
Document(paras) == Join(paras, <<NL, NL>>)

\* The paragraphs a document opens with, its education part and its
\* experience part; each may be missing
Openings == {<<>>, <<Para(<<L_JohnSmith, L_Mail>>)>>, <<L_Contact, L_Mail>>}
EducationParts ==
    {<<>>,
     <<Para(<<L_Education, L_BSc>>)>>,
     <<L_Education, Para(<<L_BSc, L_BA>>)>>,
     <<L_Education, Para(<<L_MSc, L_PhD>>)>>,
     <<L_Education, L_MasterBachelor>>,
     <<L_Education, Para(<<L_BSc, L_BA>>),
       L_Experience, Para(<<L_Globex, L_Led>>),
       L_Education, Para(<<L_MSc, L_PhD>>)>>}
ExperienceParts ==
    {<<>>,
     <<Para(<<L_Experience, L_Job, S_Developed>>)>>,
     <<L_Experience, Para(<<L_Job, S_Developed>>)>>,
     <<L_Experience, Para(<<L_Globex, L_Led>>)>>,
     <<L_Experience, Para(<<L_AcmeYears, L_Built>>)>>,
     <<L_Experience,
       Para(<<L_Initech, L_Duties, L_School, L_BuiltA, L_Globex, L_Led>>)>>,
     <<L_Experience,
       Para(<<L_AcmeRange, L_BuiltA, L_BuiltB, L_BuiltC, L_LedD,
              L_AcmeUpper, L_BuiltA, L_LedE, L_LedF, L_LedG>>)>>}
Documents ==
    {Document(o \o e \o w) :
        o \in Openings, e \in EducationParts, w \in ExperienceParts}

\* --- helpers/normalization.py: confidence_scores (lines 298-345)
\* score_text: 0 for an empty value, else 100 / 90 / 80 by the word count
score_text(val) ==
    IF ~Truthy(val) THEN 0
    ELSE IF Len(Words(val.s)) >= 6 THEN 100
    ELSE IF Len(Words(val.s)) >= 3 THEN 90
    ELSE 80
\* score_list(items, min_items, good_items)
score_list(items, min_items, good_items) ==
    IF ~Truthy(items) THEN 0
    ELSE IF Len(items.items) >= good_items THEN 100
    ELSE IF Len(items.items) >= min_items THEN 90
    ELSE 80
PresenceScore(v) == IF Truthy(v) THEN 100 ELSE 0
TextScored == {"name", "ugDegree", "ugMajor", "pgDegree", "pgMajor"}
PresenceScored == {"email", "phoneNumber"}
ListScored ==
    {"workExperience", "certifications", "achievements", "researchPublications"}
\* The dict the function returns: field -> percentage, and nothing else
confidence_scores(p) ==
    [f \in TextScored \cup PresenceScored \cup ListScored |->
        IF f \in TextScored THEN score_text(Get(p, f, EmptyStr))
        ELSE IF f \in PresenceScored THEN PresenceScore(Get(p, f, EmptyStr))
        ELSE score_list(Get(p, f, JList(<<>>)), 1, 2)]
\* conf_bundle.get("overall_quality_score") or conf_bundle.get("overall", 0.0)
\* (batch_worker.py 157)
OverallOf(bundle) ==
    IF "overall_quality_score" \in DOMAIN bundle
       /\ bundle["overall_quality_score"] # 0
    THEN bundle["overall_quality_score"]
    ELSE Get(bundle, "overall", 0)
\* def confidence_scores(parsed) takes one positional argument; the worker
\* and the API pass two, confidence_scores(normalized, raw_text)
ConfidenceParams == 1
ConfidenceArgs == 2
\* Python raises TypeError on a call whose positional arguments do not fit
CallRaises(nargs, nparams) == nargs # nparams

\* --- helpers/batch_worker.py: process_single_file and its cache
\* compute_file_hash(data, model_name): SHA256 over the bytes followed by
\* the model name; two calls agree on it exactly when they agree on both
compute_file_hash(data, model_name) == <<data, model_name>>
\* The default of the model_name parameter (line 49)
model_name == "en_core_web_sm"
NoEnvelope == [status |-> "none"]
\* The envelope of the handler at lines 178-181
ErrorEnvelope == [status |-> "error"]
\* get_record_by_hash(h) (db.py 136-147): the row stored under h, or None
HasRow(table, h) == \E row \in table : row.hash = h
RowOf(table, h) == CHOOSE row \in table : row.hash = h
\* save_hash_cache(h, parsed, resume_score, conf_pct) (db.py 125-134):
\* INSERT OR REPLACE of the row of h; the JSON text written and read back
\* is that of a dict of strings, numbers and lists, which json restores
save_hash_cache(table, h, p, score, conf_pct) ==
    {row \in table : row.hash # h}
        \cup {[hash |-> h, parsed |-> p, resume_quality_score |-> score,
               confidence_percentage |-> conf_pct]}
\* conf_bundle.get("percentage_scores"), and the envelope's conf_pct or {}
ConfPct(bundle) ==
    IF "percentage_scores" \in DOMAIN bundle
    THEN bundle["percentage_scores"] ELSE <<>>
PipelineTimings == {"ocr", "split", "assemble", "normalize", "confidence"}
\* The envelope of a hit (lines 71-79)
CachedEnvelope(row) ==
    [status |-> "ok", parsed |-> row.parsed, timings |-> {"cached"},
     resume_quality_score |-> row.resume_quality_score,
     confidence_percentage |-> row.confidence_percentage]
\* The envelope of a completed run (lines 169-177)
OkEnvelope(p, score, conf_pct) ==
    [status |-> "ok", parsed |-> p, timings |-> PipelineTimings,
     resume_quality_score |-> score, confidence_percentage |-> conf_pct]
\* The positions at which a call has returned
ReturnedAt == {"failed", "confidence_failed", "scored", "cached"}

\* A file is about to be processed; the hash_cache table is empty (the
\* value of use_cache is that of the call, chosen when it starts)
InitPipe ==
    /\ ppc = "call"
    /\ raw_text \in Documents
    /\ use_cache = FALSE
    /\ hash_cache = {}
    /\ envelope = NoEnvelope
    /\ embed = Idle /\ ner = Idle
    /\ sections = Idle /\ parsed = Idle /\ final = Idle
    /\ conf_bundle = Idle /\ resume_score = Idle
    /\ NormIdle
    /\ ScoreIdle
    /\ BuildIdle
    /\ LoadIdle
    /\ SkillIdle
    /\ EmbedIdle
    /\ ApiIdle

\* The start of a call of process_single_file for the file, the first one
\* or a later one with the same bytes and model name: the cache lookup
\* (lines 67-83), then the text extraction (line 87)
Lookup ==
    /\ ppc \in {"call"} \cup ReturnedAt
    /\ \E uc \in BOOLEAN :
          /\ use_cache' = uc
          /\ IF uc /\ HasRow(hash_cache,
                              compute_file_hash(raw_text, model_name))
             THEN /\ envelope' =
                      CachedEnvelope(
                          RowOf(hash_cache,
                                compute_file_hash(raw_text, model_name)))
                  /\ ppc' = "cached"
             ELSE /\ envelope' = NoEnvelope
                  /\ ppc' = "text"
    /\ embed' = Idle /\ ner' = Idle /\ sections' = Idle /\ parsed' = Idle
    /\ final' = Idle /\ conf_bundle' = Idle /\ resume_score' = Idle
    /\ dp' = Idle
    /\ UNCHANGED <<raw_text, hash_cache, npc, rec, out1, out2,
                   scoreVars, buildVars, loadVars, skillVars, embedVars,
                   apiVars>>

\* sections = split_into_sections(raw_text); the embedding model is the
\* library's: absent, or scoring the headings one way or another
Split ==
    /\ ppc = "text"
    /\ \E m \in EmbedModes :
          /\ embed' = m
          /\ IF SplitRaises(raw_text, m)
             THEN \* the exception ends the processing of the file
                  \* (batch_worker.py 84, 178-181)
                  /\ sections' = Idle /\ ppc' = "failed"
                  /\ envelope' = ErrorEnvelope
             ELSE /\ sections' = split_into_sections(raw_text, m)
                  /\ ppc' = "split"
                  /\ envelope' = envelope
    /\ UNCHANGED <<raw_text, ner, parsed, final, conf_bundle, resume_score,
                   use_cache, hash_cache,
                   normVars, scoreVars, buildVars, loadVars, skillVars,
                   embedVars, apiVars>>

\* schema = assemble_full_schema(raw_text, sections, nlp=nlp); nlp is None
\* when the spaCy model cannot be loaded
Assemble ==
    /\ ppc = "split"
    /\ \E n \in NerModes :
          /\ ner' = n
          /\ parsed' = assemble_full_schema(raw_text, sections, n)
    /\ ppc' = "assembled"
    /\ UNCHANGED <<raw_text, embed, sections, final, conf_bundle, resume_score,
                   use_cache, hash_cache, envelope,
                   normVars, scoreVars, buildVars, loadVars, skillVars,
                   embedVars, apiVars>>

\* normalized = normalize_schema(schema); dateparser answers as it does
NormalizeParsed ==
    /\ ppc = "assembled"
    /\ \E o \in {"none", "parses"} :
          /\ dp' = o
          /\ final' = normalize_schema(parsed, o)
    /\ ppc' = "normalized"
    /\ UNCHANGED <<raw_text, embed, ner, sections, parsed, conf_bundle,
                   resume_score, use_cache, hash_cache, envelope,
                   npc, rec, out1, out2, scoreVars, buildVars, loadVars,
                   skillVars, embedVars, apiVars>>

\* conf_bundle = confidence_scores(normalized, raw_text), the reading of
\* the overall score, the saving of the result in the cache and the return
\* of the envelope (batch_worker.py 152-177).  The exception of a call
\* that does not fit the signature is caught at line 178 and ends the file
\* with status "error".
ScoreConfidence ==
    /\ ppc = "normalized"
    /\ ~final.raised
    /\ IF CallRaises(ConfidenceArgs, ConfidenceParams)
       THEN /\ conf_bundle' = Raised
            /\ resume_score' = Idle
            /\ hash_cache' = hash_cache
            /\ envelope' = ErrorEnvelope
            /\ ppc' = "confidence_failed"
       ELSE /\ conf_bundle' = confidence_scores(final.data)
            /\ resume_score' = OverallOf(confidence_scores(final.data))
            /\ hash_cache' =
                IF use_cache
                THEN save_hash_cache(hash_cache,
                        compute_file_hash(raw_text, model_name), final.data,
                        OverallOf(confidence_scores(final.data)),
                        ConfPct(confidence_scores(final.data)))
                ELSE hash_cache
            /\ envelope' =
                OkEnvelope(final.data,
                           OverallOf(confidence_scores(final.data)),
                           ConfPct(confidence_scores(final.data)))
            /\ ppc' = "scored"
    /\ UNCHANGED <<raw_text, embed, ner, sections, parsed, final,
                   use_cache,
                   normVars, scoreVars, buildVars, loadVars, skillVars,
                   embedVars, apiVars>>

Next == Lookup \/ Split \/ Assemble \/ NormalizeParsed \/ ScoreConfidence

Spec == InitPipe /\ [][Next]_vars

-----------------------------------------------------------------------------
(***************************************************************************)
(* Properties of the pipeline                                              *)
(***************************************************************************)
\* C1: for every raw_text, the empty string included, and the sections
\* split_into_sections returns for it, assemble_full_schema followed by
\* normalize_schema returns, without raising, a record that holds every
\* schema key with its schema type: the scalar fields strings, the five list
\* fields lists, testScores a dict with exactly the six score keys.
C1_SchemaTotality ==
    ppc = "normalized" => (~final.raised /\ HasSchemaShape(final.data))

\* C1 witness: a document whose experience section gave a work entry has
\* gone through the three stages
C1_Witness ==
    /\ ppc = "normalized"
    /\ raw_text # <<>>
    /\ ~final.raised
    /\ Len(parsed["workExperience"].items) > 0

\* The first non-blank line of the document
OpeningLine(text) == FirstOr(StrippedLines(text), <<>>)

\* C8: without an NLP handle, a document whose first line is a name of 2 to
\* 4 capitalized alphabetic tokens ('John Smith') has name resolved to that
\* line by split_into_sections and assemble_full_schema, and that line is in
\* the section text the name extractor reads.
C8_NameThroughHandOff ==
    (ppc \in {"assembled", "normalized"} /\ ner = "off"
       /\ IsNameLine(OpeningLine(raw_text))) =>
        /\ parsed["name"] = JStr(OpeningLine(raw_text))
        /\ Contains(SectionText(sections, "header"), OpeningLine(raw_text))

\* The years the range of a block states: start and end
StatedYears(block) ==
    CASE block = Para(<<L_Job, S_Developed>>) -> <<S_2019, S_2021>>
      [] block = Para(<<L_Globex, L_Led>>) ->
           <<S_2020, <<"P", "r", "e", "s", "e", "n", "t">>>>
      [] block = Para(<<L_AcmeYears, L_Built>>) ->
           <<<<"2", "0", "1", "8">>, S_2020>>
      [] OTHER -> <<>>
HasYears(work, years) ==
    \E i \in 1..Len(work) :
        /\ work[i].d.startYear = JStr(years[1])
        /\ work[i].d.endYear = JStr(years[2])

\* C9: the entry extract_experience_blocks makes of a block has the
\* four-digit years of the block's range 'Y1-Y2' as startYear and endYear
\* ('Present' for an open end), or without a range the first and second
\* four-digit year of the block; the block 'Software Engineer, Acme Inc,
\* 2019-2021' / 'Developed backend services.' gets '2019' and '2021', and
\* keeps them through normalize_schema.
C9_WorkYears ==
    (ppc \in {"assembled", "normalized"}
       /\ StatedYears(SectionText(sections, "experience")) # <<>>) =>
        /\ HasYears(parsed["workExperience"].items,
                    StatedYears(SectionText(sections, "experience")))
        /\ (ppc = "normalized"
              /\ SectionText(sections, "experience")
                   = Para(<<L_Job, S_Developed>>)) =>
              (~final.raised
                 /\ HasYears(final.data["workExperience"].items,
                             <<S_2019, S_2021>>))

\* The tier's fields of p are those of the entry edu
TierIs(p, tier, edu) ==
    /\ p[tier \o "CollegeName"] = JStr(edu.collegeName)
    /\ p[tier \o "Degree"] = JStr(edu.degree)
    /\ p[tier \o "GraduationYear"] = JStr(edu.graduationYear)
FirstOfTier(p, tier, entries) ==
    Len(entries) >= 2 => TierIs(p, tier, entries[1])

\* C10: when the education section holds two lines classified undergraduate
\* (or two classified postgraduate), assemble_full_schema fills the tier's
\* collegeName, degree and graduationYear from the earlier line; the later
\* line does not overwrite them.
C10_FirstTierWins ==
    ppc \in {"assembled", "normalized"} =>
        /\ FirstOfTier(parsed, "ug",
              SelectSeq(extract_education_blocks(
                            SectionText(sections, "education")), IsUg))
        /\ FirstOfTier(parsed, "pg",
              SelectSeq(extract_education_blocks(
                            SectionText(sections, "education")), IsPg))

\* The entries the blocks of an experience text give before the merge
\* (field_extraction.py 285-366), as JSON entries
BlockResults(text) ==
    WorkJson(ProcessBlocks(GroupBlocks(StrippedLines(text), <<>>))).items
\* key = (organization.lower(), startYear, endYear)
MergeKey(e) == <<Lower(e.d.organization.s), e.d.startYear, e.d.endYear>>
SharingKey(es, e) == SelectSeq(es, LAMBDA r : MergeKey(r) = MergeKey(e))
RECURSIVE AllDetails(_)
AllDetails(es) ==
    IF es = <<>> THEN <<>>
    ELSE Head(es).d.details.items \o AllDetails(Tail(es))
\* The first entry of a group, with the de-duplicated union of the group's
\* details, capped at 6, when the group has more than one entry
MergedEntry(group) ==
    IF Len(group) = 1 THEN group[1]
    ELSE [group[1] EXCEPT
            !.d.details = JList(FirstSix(Dedupe(AllDetails(group), {})))]
IsMergeOf(work, results) ==
    /\ \A i, j \in 1..Len(work) : i < j => MergeKey(work[i]) # MergeKey(work[j])
    /\ {MergeKey(work[i]) : i \in 1..Len(work)}
         = {MergeKey(results[i]) : i \in 1..Len(results)}
    /\ \A i \in 1..Len(work) :
          work[i] = MergedEntry(SharingKey(results, work[i]))

\* C11: the list extract_experience_blocks returns never holds two entries
\* with the same (organization compared case-insensitively, startYear,
\* endYear); the entries sharing a key are merged into the first of them,
\* whose details become the order-preserving de-duplicated union of their
\* detail lists, capped at 6 items.
C11_DuplicateMerge ==
    ppc \in {"assembled", "normalized"} =>
        IsMergeOf(parsed["workExperience"].items,
                  BlockResults(SectionText(sections, "experience")))

\* C11 witness: two blocks with one key and eight details between them, one
\* twice, came out as one entry of six details
C11_Witness ==
    /\ ppc = "assembled"
    /\ Len(BlockResults(SectionText(sections, "experience"))) = 2
    /\ Len(AllDetails(BlockResults(SectionText(sections, "experience")))) = 8
    /\ Len(parsed["workExperience"].items) = 1
    /\ Len(parsed["workExperience"].items[1].d.details.items) = 6

\* C12: split_into_sections raises for no input text, and when the
\* embedding backend fails (not installed, failing while it loads, failing
\* while a heading is scored) the result is the one of regex-only heading
\* classification.
C12_SplitNeverRaises ==
    /\ ppc # "failed"
    /\ (ppc \in {"split", "assembled", "normalized"}
          /\ embed \in {"absent", "fails"}) =>
            sections = split_into_sections(raw_text, "absent")

\* The label in force at paragraph i: the one of the last labelled heading
\* before it, "top" before the first
LabelAt(i, idx2label) ==
    IF {j \in DOMAIN idx2label : j < i} = {} THEN "top"
    ELSE idx2label[SetMax({j \in DOMAIN idx2label : j < i})]
ParasAt(paras, idxs) == [k \in 1..Len(idxs) |-> paras[idxs[k]]]
\* The content paragraphs under the label, in the order of the document
ContentOf(paras, idx2label, label) ==
    ParasAt(paras, Sorted({i \in 1..Len(paras) :
                             /\ i \notin DOMAIN idx2label
                             /\ LabelAt(i, idx2label) = label}))
Consolidated(secs, paras, idx2label) ==
    DOMAIN idx2label # {} =>
        \A label \in DOMAIN secs :
            secs[label] = Join(ContentOf(paras, idx2label, label), <<NL, NL>>)

\* C13: split_into_sections returns one text per label: when several
\* headings of the document map to one label, the content paragraphs that
\* follow each of them are concatenated into the label's value in the order
\* of the document, separated by a blank line.
C13_OneBlobPerLabel ==
    (ppc \in {"split", "assembled", "normalized"} /\ Strip(raw_text) # <<>>) =>
        Consolidated(sections, Paragraphs(SplitLines(raw_text), <<>>),
                     Idx2Label(Candidates(Paragraphs(SplitLines(raw_text), <<>>)),
                               embed))

\* C13 witness: two EDUCATION headings with an EXPERIENCE heading between
\* them; the paragraphs after the two are joined under education
C13_Witness ==
    /\ ppc = "split"
    /\ embed = "absent"
    /\ raw_text = Document(<<L_Education, Para(<<L_BSc, L_BA>>),
                             L_Experience, Para(<<L_Globex, L_Led>>),
                             L_Education, Para(<<L_MSc, L_PhD>>)>>)
    /\ sections["education"]
         = Document(<<Para(<<L_BSc, L_BA>>), Para(<<L_MSc, L_PhD>>)>>)
    /\ sections["experience"] = Para(<<L_Globex, L_Led>>)

\* Every candidate heading the keyword table HEADING_KEYS matches has the
\* table's label under the backend behaviour mode
TableLabelsKept(cands, mode) ==
    \A i \in DOMAIN cands :
        KeyLabel(Lower(cands[i]), 1) # "" =>
            HeadingLabel(cands[i], mode) = KeyLabel(Lower(cands[i]), 1)

\* C14: a heading that matches the canonical synonym/keyword table gets the
\* same label from split_into_sections whether or not the embedding backend
\* is available; the embedding similarity is consulted only for headings
\* the table does not match.
C14_EmbeddingOnlyFallback ==
    (ppc \in {"split", "assembled", "normalized"} /\ Strip(raw_text) # <<>>) =>
        TableLabelsKept(Candidates(Paragraphs(SplitLines(raw_text), <<>>)),
                        embed)

-----------------------------------------------------------------------------
(***************************************************************************)
(* helpers/semantic_extraction.py: build_final_schema, its phone step and  *)
(* its work-experience step                                                *)
(***************************************************************************)
CR == "\r"
\* ORG_HINT = \b(inc|ltd|llc|company|corp|co\.|group|agency)\b, re.I
ORG_HINT ==
    Cat(<<Wb, AltLit(<<<<"i","n","c">>,
              <<"l","t","d">>,
              <<"l","l","c">>,
              <<"c","o","m","p","a","n","y">>,
              <<"c","o","r","p">>,
              <<"c","o",".">>,
              <<"g","r","o","u","p">>,
              <<"a","g","e","n","c","y">>>>), Wb>>)
\* PHONE_RE = (\+?\d[\d\-\s\(\)]{5,}\d)  (semantic_extraction.py line 34)
SemPhoneRe ==
    Cat(<<Opt(Chr({"+"})), Chr(Digit),
          Rep(Chr(Digit \cup Space \cup {"-", "(", ")"}), 5, -1), Chr(Digit)>>)
\* (Jan|Feb|Mar|Apr|May|Jun|Jul|Aug|Sep|Oct|Nov|Dec)\b, re.I
MonthRe ==
    Cat(<<AltLit(<<<<"j","a","n">>,
          <<"f","e","b">>,
          <<"m","a","r">>,
          <<"a","p","r">>,
          <<"m","a","y">>,
          <<"j","u","n">>,
          <<"j","u","l">>,
          <<"a","u","g">>,
          <<"s","e","p">>,
          <<"o","c","t">>,
          <<"n","o","v">>,
          <<"d","e","c">>>>), Wb>>)
\* \b(jan|feb|...|dec)\b, re.I
MonthWordRe == Cat(<<Wb, MonthRe>>)
\* \b(present|ongoing|to date|current)\b, re.I
OngoingRe ==
    Cat(<<Wb, AltLit(<<<<"p","r","e","s","e","n","t">>,
              <<"o","n","g","o","i","n","g">>,
              <<"t","o"," ","d","a","t","e">>,
              <<"c","u","r","r","e","n","t">>>>), Wb>>)

\* split_lines: [clean_line(l) for l in re.split(r"\n|\r", text)
\*               if clean_line(l)]
CleanEachLine(raw) ==
    SelectNonEmpty([i \in 1..Len(raw) |-> clean_line(raw[i])])
split_lines(text) == CleanEachLine(SplitOn(text, {NL, CR}))

\* m.group(0) of each match of finditer / findall with one whole group
MatchTexts(s, ms) == [k \in 1..Len(ms) |-> Span(s, ms[k])]

\* _extract_years_from_line.  The month-year pattern of its second half
\* contains (?:19|20)\d{2}, so it cannot match a line in which findall
\* found no such year: that half returns ("", "").
EndYearOf(ln, yrs) ==
    IF Len(yrs) > 1 THEN yrs[2]
    ELSE IF ReFound(OngoingRe, Lower(ln)) THEN <<"P","r","e","s","e","n","t">>
    ELSE <<>>
YearsFound(ln, yrs) ==
    IF yrs # <<>> THEN <<yrs[1], EndYearOf(ln, yrs)>> ELSE <<<<>>, <<>>>>
_extract_years_from_line(ln) ==
    IF ln = <<>> THEN <<<<>>, <<>>>>
    ELSE YearsFound(ln, MatchTexts(ln, ReFindAll(Year4Re, ln, 0)))

\* The test that opens a block, and that skips a line of the backward scan
IsDateLine(ln) == ReFound(Year4Re, ln) \/ ReFound(MonthRe, Lower(ln))
\* ORG_HINT.search(c.lower()) or (len(c.split()) <= 6 and c == c.title())
OrgLike(c) ==
    ReFound(ORG_HINT, Lower(c)) \/ (Len(Words(c)) <= 6 /\ c = Title(c))
TitleLike(c) == Len(Words(c)) <= 8 /\ c = Title(c)

\* for back in range(1, 6): the company and the title found behind line i
RECURSIVE BackScan(_, _, _, _, _)
BackScan(lines, i, back, company, title) ==
    IF back > 5 \/ i - back < 1 THEN <<company, title>>
    ELSE IF Strip(lines[i - back]) = <<>> \/ IsDateLine(Strip(lines[i - back]))
    THEN BackScan(lines, i, back + 1, company, title)
    ELSE IF company = <<>> /\ OrgLike(Strip(lines[i - back]))
    THEN BackScan(lines, i, back + 1, Strip(lines[i - back]), title)
    ELSE IF /\ title = <<>>
            /\ TitleLike(Strip(lines[i - back]))
            /\ Strip(lines[i - back]) # company
    THEN BackScan(lines, i, back + 1, company, Strip(lines[i - back]))
    ELSE BackScan(lines, i, back + 1, company, title)

\* (a collection of details that starts at the entry's own line)
DetailEndFromLine(lines, i) ==
    SetMin({j \in i..(Len(lines) + 1) :
                j = Len(lines) + 1 \/ ReFound(Year4Re, lines[j])
                    \/ (ReFound(ORG_HINT, Lower(lines[j]))
                          /\ Len(Words(lines[j])) <= 6)})
\* The line at which the forward collection of details stops
StopsDetails(ln) ==
    ReFound(Year4Re, ln) \/ (ReFound(ORG_HINT, Lower(ln)) /\ Len(Words(ln)) <= 6)
DetailEnd(lines, i) ==
    SetMin({j \in (i + 1)..(Len(lines) + 1) :
                j = Len(lines) + 1 \/ StopsDetails(lines[j])})
DetailLines(lines, i, j) ==
    SelectSeq(SubSeq(lines, i + 1, j - 1), LAMBDA ln : Len(Words(ln)) > 2)

\* if not startYear: the years of the first detail that has a start year
RECURSIVE YearsFromDetails(_, _)
YearsFromDetails(details, ys) ==
    IF ys[1] # <<>> \/ details = <<>> THEN ys
    ELSE IF _extract_years_from_line(details[1])[1] # <<>>
    THEN <<_extract_years_from_line(details[1])[1],
           IF _extract_years_from_line(details[1])[2] # <<>>
           THEN _extract_years_from_line(details[1])[2] ELSE ys[2]>>
    ELSE YearsFromDetails(Tail(details), ys)

WorkBlock(ct, ys, details) ==
    [organization |-> ct[1], title |-> ct[2],
     startYear |-> ys[1], endYear |-> ys[2], details |-> details]
BlockAt(lines, i, j) ==
    WorkBlock(BackScan(lines, i, 1, <<>>, <<>>),
              YearsFromDetails(DetailLines(lines, i, j),
                               _extract_years_from_line(lines[i])),
              DetailLines(lines, i, j))

\* while i < n: a date line opens a block and the scan resumes where its
\* details ended
RECURSIVE ParseFrom(_, _)
ParseFrom(lines, i) ==
    IF i > Len(lines) THEN <<>>
    ELSE IF IsDateLine(lines[i])
    THEN <<BlockAt(lines, i, DetailEnd(lines, i))>>
         \o ParseFrom(lines, DetailEnd(lines, i))
    ELSE ParseFrom(lines, i + 1)

\* canonical_sections is a dict in insertion order: a sequence of
\* <<label, text>> pairs
SecGet(secs, label) ==
    IF \E k \in 1..Len(secs) : secs[k][1] = label
    THEN secs[CHOOSE k \in 1..Len(secs) : secs[k][1] = label][2]
    ELSE <<>>
NonEmptyTexts(secs) ==
    SelectNonEmpty([k \in 1..Len(secs) |-> secs[k][2]])
ExperienceText(secs) ==
    IF SecGet(secs, "experience") # <<>> THEN SecGet(secs, "experience")
    ELSE IF SecGet(secs, "work") # <<>> THEN SecGet(secs, "work")
    ELSE Join(NonEmptyTexts(secs), <<NL, NL>>)
\* lines = split_lines(exp_text)
ExperienceLines(secs) == split_lines(ExperienceText(secs))
parse_experience_blocks(secs) == ParseFrom(ExperienceLines(secs), 1)

\* _fill_missing_work_orgs: all_lines
RECURSIVE AllLines(_)
AllLines(secs) ==
    IF secs = <<>> THEN <<>>
    ELSE split_lines(secs[1][2]) \o AllLines(Tail(secs))

\* The lines the look-back loop assigns to cand, in order: for every line i
\* that contains the start year, the up to four lines before it
LookBack(i) == [b \in 1..Min(4, i - 1) |-> i - b]
RECURSIVE Visits(_, _, _)
Visits(all_lines, pattern, i) ==
    IF i > Len(all_lines) THEN <<>>
    ELSE (IF Contains(all_lines[i], pattern) THEN LookBack(i) ELSE <<>>)
         \o Visits(all_lines, pattern, i + 1)
VisitsOf(item, all_lines) ==
    IF item.startYear # <<>> THEN Visits(all_lines, item.startYear, 1) ELSE <<>>

\* _looks_like_date_line
_looks_like_date_line(s) ==
    s # <<>> /\ (ReFound(YEAR_RE, s) \/ ReFound(MonthWordRe, Lower(s)))

\* The local variable cand: unbound until the look-back loop assigns it; it
\* keeps its value from one work item to the next
Unbound == <<"unbound">>
CandAfter(all_lines, visits, cand0) ==
    IF visits = <<>> THEN cand0 ELSE all_lines[visits[Len(visits)]]
\* candidates after the look-back loop
LoopCandidates(all_lines, visits) ==
    SelectSeq([k \in 1..Len(visits) |-> all_lines[visits[k]]], OrgLike)
\* ... and after the check of cand that follows the loop (lines 555-558)
FinalCandidates(cands, c) ==
    IF OrgLike(c) /\ ~_looks_like_date_line(c) THEN Append(cands, c) ELSE cands
WithOrg(item, cands) ==
    IF cands # <<>> THEN [item EXCEPT !.organization = cands[1]] ELSE item

\* One iteration of "for item in parsed_work".  Reading cand while it is
\* unbound raises UnboundLocalError.
FillRaises(item, all_lines, cand0) ==
    /\ item.organization = <<>>
    /\ CandAfter(all_lines, VisitsOf(item, all_lines), cand0) = Unbound
FillItem(item, all_lines, cand0) ==
    IF item.organization # <<>> THEN item
    ELSE WithOrg(item,
             FinalCandidates(LoopCandidates(all_lines, VisitsOf(item, all_lines)),
                 CandAfter(all_lines, VisitsOf(item, all_lines), cand0)))
FillCand(item, all_lines, cand0) ==
    IF item.organization # <<>> THEN cand0
    ELSE CandAfter(all_lines, VisitsOf(item, all_lines), cand0)

\* collect_candidates, the phone candidates (lines 83-92, 134-146)
PhoneClean(ph) == SelectSeq(ph, LAMBDA c : c \in Digit \cup {"+"})
CleanPhones(phones) ==
    SelectSeq([k \in 1..Len(phones) |-> PhoneClean(phones[k])],
              LAMBDA p : Len(p) >= 6)
\* max(candidates, key=len): the first of the longest
Longest(cs) ==
    cs[SetMin({k \in 1..Len(cs) : \A j \in 1..Len(cs) : Len(cs[j]) <= Len(cs[k])})]
GlobalPhone(phones) == IF phones # <<>> THEN <<phones[1]>> ELSE <<>>
LinePhone(phones) ==
    IF CleanPhones(phones) # <<>> THEN <<Longest(CleanPhones(phones))>> ELSE <<>>
\* one append per line of every section
RECURSIVE Repeat(_, _)
Repeat(xs, n) == IF n = 0 THEN <<>> ELSE xs \o Repeat(xs, n - 1)
PhoneCandidates(phones, secs) ==
    GlobalPhone(phones) \o Repeat(LinePhone(phones), Len(AllLines(secs)))
collect_phone(raw, secs) ==
    PhoneCandidates(MatchTexts(raw, ReFindAll(SemPhoneRe, raw, 0)), secs)

\* --- The inputs: documents of up to MaxLines lines of a resume's
\* experience part, handed over under the label "experience" or "summary"
P_Acme ==
    <<"A","c","m","e"," ","I","n","c">>
P_Range ==
    <<"2","0","1","9","-","2","0","2","1">>
P_Built ==
    <<"b","u","i","l","t"," ","t","h","e"," ","a","p","i"," ","f","o","r"," ","c","l","i","e","n","t","s">>
P_Duties ==
    <<"d","u","t","i","e","s"," ","m","a","y"," ","i","n","c","l","u","d","e"," ","t","r","a","v","e","l">>
P_Phone ==
    <<"+","1"," ","(","5","5","5",")"," ","1","2","3","-","4","5","6","7">>
P_Call ==
    <<"c","a","l","l"," ","5","5","5","-","1","2","3","4">>

LinePool == {P_Acme, P_Range, P_Built, P_Duties, P_Phone, P_Call}
MaxLines == 3
LineLists == UNION {[1..n -> LinePool] : n \in 1..MaxLines}
BuildTexts == {Para(ls) : ls \in LineLists}
BuildLabels == {"experience", "summary"}

InitBuild ==
    /\ bpc = "start"
    /\ b_raw \in BuildTexts
    /\ \E lab \in BuildLabels : b_secs = <<<<lab, b_raw>>>>
    \* the locals a step has not assigned yet are empty
    /\ cand_phone = <<>>
    /\ phoneNumber = <<>>
    /\ workExperience = <<>>
    /\ scan_i = 0
    /\ scan_log = <<>>
    /\ wi = 0
    /\ fill_cand = Unbound
    /\ NormIdle
    /\ ScoreIdle
    /\ PipeIdle
    /\ LoadIdle
    /\ SkillIdle
    /\ EmbedIdle
    /\ ApiIdle

\* cand = collect_candidates(raw_text, canonical_sections)  (line 569)
CollectCandidates ==
    /\ bpc = "start"
    /\ cand_phone' = collect_phone(b_raw, b_secs)
    /\ bpc' = "collected"
    /\ UNCHANGED <<b_raw, b_secs, phoneNumber, workExperience, scan_i,
                   scan_log, wi, fill_cand,
                   pipeVars, normVars, scoreVars, loadVars, skillVars,
                   embedVars, apiVars>>

\* parsed["phoneNumber"] = cand["phoneNumber"][0]["text"], or ""
\* (lines 594-599)
ResolvePhone ==
    /\ bpc = "collected"
    /\ phoneNumber' = IF cand_phone # <<>> THEN cand_phone[1] ELSE <<>>
    /\ bpc' = "phone"
    /\ UNCHANGED <<b_raw, b_secs, cand_phone, workExperience, scan_i,
                   scan_log, wi, fill_cand,
                   pipeVars, normVars, scoreVars, loadVars, skillVars,
                   embedVars, apiVars>>

\* work_blocks = parse_experience_blocks(canonical_sections) (line 702):
\* the call, up to the while loop (lines 286-293)
ParseExperience ==
    /\ bpc = "phone"
    /\ bpc' = "parse"
    /\ scan_i' = 1
    /\ scan_log' = <<>>
    /\ workExperience' = <<>>
    /\ UNCHANGED <<b_raw, b_secs, cand_phone, phoneNumber, wi, fill_cand,
                   pipeVars, normVars, scoreVars, loadVars, skillVars,
                   embedVars, apiVars>>

\* The body of "while i < n" at index i (lines 294-345): a date line opens
\* an entry and the scan resumes where its details ended (i = j); another
\* line is passed over (i += 1)
LoopBody(lines, i) ==
    IF IsDateLine(lines[i])
    THEN [i |-> DetailEnd(lines, i),
          span |-> <<<<i, DetailEnd(lines, i)>>>>,
          out |-> <<BlockAt(lines, i, DetailEnd(lines, i))>>]
    ELSE [i |-> i + 1, span |-> <<>>, out |-> <<>>]

\* The sections build_final_schema is given
BuildInputs == {<<<<lab, t>>>> : lab \in BuildLabels, t \in BuildTexts}

\* n = len(lines) (line 291) and the loop body at each index, for each
\* input, computed once
ScanLen == [secs \in BuildInputs |-> Len(ExperienceLines(secs))]
ScanBody ==
    [secs \in BuildInputs |->
        [i \in 1..Len(ExperienceLines(secs)) |->
            LoopBody(ExperienceLines(secs), i)]]

\* One iteration of "while i < n"
ScanLine ==
    /\ bpc = "parse"
    /\ scan_i <= ScanLen[b_secs]
    /\ scan_i' = ScanBody[b_secs][scan_i].i
    /\ scan_log' = scan_log \o ScanBody[b_secs][scan_i].span
    /\ workExperience' = workExperience \o ScanBody[b_secs][scan_i].out
    /\ UNCHANGED <<bpc, b_raw, b_secs, cand_phone, phoneNumber, wi, fill_cand,
                   pipeVars, normVars, scoreVars, loadVars, skillVars,
                   embedVars, apiVars>>

\* return out (line 346) and the entry into _fill_missing_work_orgs
\* (line 704)
ParseReturn ==
    /\ bpc = "parse"
    /\ scan_i > ScanLen[b_secs]
    /\ bpc' = "fill"
    /\ wi' = 1
    /\ fill_cand' = Unbound
    /\ UNCHANGED <<b_raw, b_secs, cand_phone, phoneNumber, workExperience,
                   scan_i, scan_log, pipeVars, normVars, scoreVars,
                   loadVars, skillVars, embedVars, apiVars>>

\* One iteration of the loop of _fill_missing_work_orgs; the exception it
\* raises leaves build_final_schema, which has no handler around the call
FillMissingOrg ==
    /\ bpc = "fill"
    /\ wi <= Len(workExperience)
    /\ IF FillRaises(workExperience[wi], AllLines(b_secs), fill_cand)
       THEN /\ bpc' = "raised"
            /\ UNCHANGED <<workExperience, wi, fill_cand>>
       ELSE /\ workExperience' =
                [workExperience EXCEPT
                    ![wi] = FillItem(workExperience[wi], AllLines(b_secs), fill_cand)]
            /\ fill_cand' = FillCand(workExperience[wi], AllLines(b_secs), fill_cand)
            /\ wi' = wi + 1
            /\ UNCHANGED bpc
    /\ UNCHANGED <<b_raw, b_secs, cand_phone, phoneNumber, scan_i, scan_log,
                   pipeVars, normVars, scoreVars, loadVars, skillVars,
                   embedVars, apiVars>>

\* return parsed_work, and build_final_schema returns its record
BuildReturn ==
    /\ bpc = "fill"
    /\ wi > Len(workExperience)
    /\ bpc' = "returned"
    /\ UNCHANGED <<b_raw, b_secs, cand_phone, phoneNumber, workExperience,
                   scan_i, scan_log, wi, fill_cand,
                   pipeVars, normVars, scoreVars, loadVars, skillVars,
                   embedVars, apiVars>>

NextBuild ==
    CollectCandidates \/ ResolvePhone \/ ParseExperience \/ ScanLine
        \/ ParseReturn \/ FillMissingOrg \/ BuildReturn

SpecBuild == InitBuild /\ [][NextBuild]_vars

\* The scan runs in the thread of its caller, which goes on executing: a
\* step of the loop that is possible is taken
scanVars == <<bpc, scan_i>>
SpecBuildFair ==
    SpecBuild /\ WF_scanVars(ParseExperience) /\ WF_scanVars(ScanLine)
        /\ WF_scanVars(ParseReturn)

-----------------------------------------------------------------------------
(***************************************************************************)
(* Claims on build_final_schema (SpecBuild)                                *)
(***************************************************************************)
\* C15: an exception inside a sub-extractor never aborts the record.  For
\* every raw_text and sections, also those that yield a work entry with no
\* organization and no startYear, or whose startYear first occurs on the
\* very first line, build_final_schema returns a record: the backfill
\* _fill_missing_work_orgs is never left by an exception.
C15_BackfillNeverAborts == bpc # "raised"

\* C18: the phoneNumber that build_final_schema resolves from
\* collect_candidates is the longest phone match of the whole document
\* after every match has been normalized to digits only, counting only the
\* matches with at least 6 digits (and empty when there is none); it is not
\* merely the first raw match.
DigitsOnly(ph) == SelectSeq(ph, LAMBDA c : c \in Digit)
ValidPhones(phones) ==
    {DigitsOnly(phones[k]) : k \in {j \in 1..Len(phones) : Len(DigitsOnly(phones[j])) >= 6}}
LongestOf(ps) == {p \in ps : \A q \in ps : Len(q) <= Len(p)}
PhoneMatches == MatchTexts(b_raw, ReFindAll(SemPhoneRe, b_raw, 0))
PhoneResolved == bpc \in {"phone", "parse", "fill", "returned", "raised"}
C18_LongestNormalizedPhone ==
    PhoneResolved =>
        IF ValidPhones(PhoneMatches) = {} THEN phoneNumber = <<>>
        ELSE phoneNumber \in LongestOf(ValidPhones(PhoneMatches))

-----------------------------------------------------------------------------
(***************************************************************************)
(* Claims on normalize_year and normalize_gpa_or_percentage (SpecNorm)     *)
(***************************************************************************)
\* The offsets at which a 19xx / 20xx token of four digits starts in s: the
\* four digits, with no word character right before or right after them
IsYearTokenAt(s, i) ==
    /\ i + 3 <= Len(s)
    /\ <<s[i], s[i + 1]>> \in {<<"1", "9">>, <<"2", "0">>}
    /\ s[i + 2] \in Digit /\ s[i + 3] \in Digit
    /\ (i = 1 \/ s[i - 1] \notin WordCh)
    /\ (i + 3 = Len(s) \/ s[i + 4] \notin WordCh)
YearTokens(s) == {i \in 1..Len(s) : IsYearTokenAt(s, i)}
FirstYearToken(s) == SubSeq(s, SetMin(YearTokens(s)), SetMin(YearTokens(s)) + 3)
IsFourDigitYear(r) == Len(r) = 4 /\ \A i \in 1..4 : r[i] \in Digit
\* What the claim says of the result r for the input v, when dateparser
\* answers as the oracle says
YearClaim(v, r, oracle) ==
    /\ v = <<>> => r = <<>>
    /\ YearTokens(v) # {} => r = FirstYearToken(v)
    /\ (YearTokens(v) = {} /\ ~(oracle = "parses" /\ DateLike(v))) => r = <<>>
    /\ r # <<>> => IsFourDigitYear(r)
YearProbed ==
    /\ npc # "input"
    /\ "ugGraduationYear" \in DOMAIN rec
    /\ IsStr(rec["ugGraduationYear"])
\* The record is a base record with nothing but the year set
YearOnly ==
    \E b \in {<<>>, DefaultRecord} :
        rec = Put(b, "ugGraduationYear", rec["ugGraduationYear"])
HasPercent(s) == \E i \in 1..Len(s) : s[i] = "%"
InferredScale(v) ==
    IF FloatLe45(v) THEN <<"4">> ELSE IF FloatLe10(v) THEN <<"1", "0">> ELSE <<>>
\* What the claim says of the result (rv, rs) for the strings (v, s)
GpaClaim(v, s, rv, rs) ==
    /\ v = <<>> => (rv = <<>> /\ rs = <<>>)
    /\ (v # <<>> /\ (HasPercent(v) \/ HasPercent(s))) =>
            (rv = Strip(RemoveChar(v, "%")) /\ rs = <<"%">>)
    /\ (IsFloat(v) /\ ~HasPercent(s) /\ s = <<>>) =>
            (rv = v /\ rs = InferredScale(v))
    /\ (IsFloat(v) /\ ~HasPercent(s) /\ s # <<>>) =>
            (rv = v /\ rs = s)
\* The GPA pairs of the record whose value and scale are both strings
StrPairs(d) ==
    {p \in DOMAIN GpaPairs :
        /\ GpaPairs[p][1] \in DOMAIN d /\ IsStr(d[GpaPairs[p][1]])
        /\ GpaPairs[p][2] \in DOMAIN d /\ IsStr(d[GpaPairs[p][2]])}
GpaOnly(p) ==
    \E b \in {<<>>, DefaultRecord} :
        rec = Put(Put(b, GpaPairs[p][1], rec[GpaPairs[p][1]]),
                  GpaPairs[p][2], rec[GpaPairs[p][2]])
\* C17: normalize_gpa_or_percentage: a value or scale containing '%' yields
\* the value without the percent sign and scale '%'; a numeric value with an
\* empty scale gets scale '4' when it is at most 4.5, '10' when it is at
\* most 10 and '' above 10; a non-empty scale supplied with a numeric value
\* is kept unchanged; an empty value yields ('', '').
C17_GpaScale ==
    npc # "input" =>
        \A p \in StrPairs(rec) :
            /\ GpaOnly(p) => ~out1.raised
            /\ ~out1.raised =>
                  /\ IsStr(out1.data[GpaPairs[p][1]])
                  /\ IsStr(out1.data[GpaPairs[p][2]])
                  /\ GpaClaim(rec[GpaPairs[p][1]].s, rec[GpaPairs[p][2]].s,
                              out1.data[GpaPairs[p][1]].s,
                              out1.data[GpaPairs[p][2]].s)
\* '8.2' with no scale comes back with scale '10'
C17_Witness ==
    /\ npc # "input"
    /\ ~out1.raised
    /\ 2 \in StrPairs(rec)
    /\ rec[GpaPairs[2][1]] = JStr(<<"8", ".", "2">>)
    /\ rec[GpaPairs[2][2]] = EmptyStr
    /\ out1.data[GpaPairs[2][2]] = JStr(<<"1", "0">>)

\* C19: confidence_scores(record) returns a bundle with a per-field
\* percentage map and one overall quality score in 0..100 (a weighted mean
\* over the fields by a fixed importance table), and the batch worker and
\* the API obtain the overall score from that bundle.  Stated here are two
\* things the claim needs: the value returned for the normalized record
\* holds an overall score within 0..100, and the worker's call returns a
\* bundle from which resume_score is read.
HasOverall(bundle) ==
    /\ "overall_quality_score" \in DOMAIN bundle
    /\ bundle["overall_quality_score"] \in 0..100
    /\ "percentage_scores" \in DOMAIN bundle
C19_OverallFromBundle ==
    /\ ppc # "confidence_failed"
    /\ (ppc \in {"normalized", "scored"} /\ ~final.raised) =>
            HasOverall(confidence_scores(final.data))
    /\ ppc = "scored" => resume_score = conf_bundle["overall_quality_score"]

\* The lines of a section text, stripped
LinesIn(text) == {Strip(SplitLines(text)[k]) : k \in 1..Len(SplitLines(text))}
\* Line k of paragraph i is a heading line: the first line of a paragraph
\* the segmenter labelled
IsHeadingLine(i, k, idx2label) == i \in DOMAIN idx2label /\ k = 1
\* The section of the nearest heading at or before paragraph i
SectionAt(i, idx2label) ==
    IF i \in DOMAIN idx2label THEN idx2label[i] ELSE LabelAt(i, idx2label)
LineKept(secs, ln, label) ==
    \A l \in DOMAIN secs : (Strip(ln) \in LinesIn(secs[l])) <=> (l = label)
NoContentLost(secs, paras, idx2label) ==
    \A i \in 1..Len(paras) :
        \A k \in 1..Len(SplitLines(paras[i])) :
            ~IsHeadingLine(i, k, idx2label) =>
                LineKept(secs, SplitLines(paras[i])[k],
                         SectionAt(i, idx2label))

\* C22: the segmenter loses no content: every non-blank line of the input
\* that is not a heading line is a line of the text of exactly one section
\* split_into_sections returns, the section of the nearest preceding
\* heading ("top" before the first heading), also when it follows the
\* heading line with no blank line between them.
C22_NoContentLost ==
    (ppc \in {"split", "assembled", "normalized"} /\ Strip(raw_text) # <<>>) =>
        NoContentLost(sections, Paragraphs(SplitLines(raw_text), <<>>),
                      Idx2Label(Candidates(Paragraphs(SplitLines(raw_text), <<>>)),
                                embed))

\* The verbs the claim lists, as words a line may contain
ActionWords ==
    {<<"d","e","v","e","l","o","p","e","d">>,
     <<"i","m","p","l","e","m","e","n","t","e","d">>,
     <<"d","e","s","i","g","n","e","d">>,
     <<"b","u","i","l","t">>,
     <<"m","a","n","a","g","e","d">>,
     <<"l","e","d">>,
     <<"w","o","r","k","e","d">>,
     <<"m","a","i","n","t","a","i","n","e","d">>,
     <<"c","r","e","a","t","e","d">>,
     <<"o","p","t","i","m","i","z","e","d">>,
     <<"c","o","n","f","i","g","u","r","e","d">>,
     <<"d","e","p","l","o","y","e","d">>,
     <<"i","n","t","e","g","r","a","t","e","d">>}
NamesAction(ln) == ContainsAny(Lower(ln), ActionWords)
\* The year-delimited blocks of the experience text
ExperienceBlocks(secs) ==
    GroupBlocks(StrippedLines(SectionText(secs, "experience")), <<>>)
DetailsAreActions(work) ==
    \A i \in 1..Len(work) :
        /\ Len(work[i].d.details.items) \in 1..6
        /\ \A k \in 1..Len(work[i].d.details.items) :
              NamesAction(work[i].d.details.items[k].s)
NoActionAfterFirst(blk) ==
    \A k \in 2..Len(blk) : ~NamesAction(blk[k])
HasRejectWord(blk) ==
    \E k \in 1..Len(blk) : ContainsAny(Lower(blk[k]), REJECT_WORDS)
Skipped(blk) == NoActionAfterFirst(blk) \/ HasRejectWord(blk)
SkippedBlocksGiveNothing(blocks, work) ==
    /\ \A b \in 1..Len(blocks) :
          Skipped(blocks[b]) => ProcessBlock(blocks[b]) = <<>>
    /\ Len(work)
         <= Cardinality({b \in 1..Len(blocks) : ~Skipped(blocks[b])})

\* C23: every entry extract_experience_blocks returns has between 1 and 6
\* details and each detail line contains an action verb; a year-delimited
\* block with no action-verb line after its first line produces no entry,
\* and neither does a block that contains a reject word.
C23_DetailsAreActions ==
    ppc \in {"assembled", "normalized"} =>
        /\ DetailsAreActions(parsed["workExperience"].items)
        /\ SkippedBlocksGiveNothing(ExperienceBlocks(sections),
                                    parsed["workExperience"].items)

\* C23 witness: of a block without an action verb, a block of a school and
\* a block with one action line, only the last gave an entry
C23_Witness ==
    /\ ppc = "assembled"
    /\ Len(ExperienceBlocks(sections)) = 3
    /\ NoActionAfterFirst(ExperienceBlocks(sections)[1])
    /\ HasRejectWord(ExperienceBlocks(sections)[2])
    /\ ~NoActionAfterFirst(ExperienceBlocks(sections)[2])
    /\ Len(parsed["workExperience"].items) = 1
    /\ parsed["workExperience"].items[1].d.details = StrList(<<L_Led>>)

\* The entry has a details list whose items are all strings
HasStrDetails(e) ==
    /\ IsDict(e)
    /\ "details" \in DOMAIN e.d
    /\ IsList(e.d.details)
    /\ \A k \in 1..Len(e.d.details.items) : IsStr(e.d.details.items[k])

\* C24: normalize_schema leaves the details list of every retained
\* workExperience entry unchanged: when every input entry is retained, the
\* output entry at each position has the details of the input entry at that
\* position, the same strings in the same order.
C24_DetailsUnchanged ==
    (npc # "input" /\ ~out1.raised /\ Len(WorkOut(out1)) = Len(InputWork)) =>
        \A i \in 1..Len(InputWork) :
            HasStrDetails(InputWork[i]) =>
                WorkOut(out1)[i].d.details = InputWork[i].d.details

\* The education entries of the document
EducationEntries(secs) ==
    extract_education_blocks(SectionText(secs, "education"))
HasPgWord(e) == ContainsAny(Lower(e.degree), PgKeywords)
HasUgWord(e) == ContainsAny(Lower(e.degree), UgKeywords)
PgNotUg(p, entries) ==
    /\ (\A i \in 1..Len(entries) : HasUgWord(entries[i]) => HasPgWord(entries[i]))
          => /\ p["ugCollegeName"] = EmptyStr
             /\ p["ugDegree"] = EmptyStr
             /\ p["ugGraduationYear"] = EmptyStr
    /\ (\E i \in 1..Len(entries) : HasUgWord(entries[i]) /\ HasPgWord(entries[i]))
          => \E i \in 1..Len(entries) :
                /\ HasPgWord(entries[i])
                /\ p["pgGraduationYear"] = JStr(entries[i].graduationYear)

\* C25: in assemble_full_schema the postgraduate keywords are checked
\* before the undergraduate ones: an education line that contains both a PG
\* keyword (master, m.sc, m.tech, phd) and a UG keyword (bachelor, b.sc,
\* b.tech) fills the pg fields and not the ug fields.
C25_PgBeforeUg ==
    ppc \in {"assembled", "normalized"} =>
        PgNotUg(parsed, EducationEntries(sections))

\* C26: an organization backfilled by _fill_missing_work_orgs is never a
\* date-like line: the organization given to a work entry that
\* parse_experience_blocks left without one holds no 19xx/20xx year and no
\* month token.
C26_BackfillNotDateLike ==
    bpc \in {"fill", "returned", "raised"} =>
        \A k \in 1..Len(workExperience) :
            parse_experience_blocks(b_secs)[k].organization = <<>> =>
                ~_looks_like_date_line(workExperience[k].organization)

\* What the scan has recorded is sound: every entry opened at a date line,
\* the entries in the order of their lines, the detail ranges apart, each
\* range ending at the first line after the entry's own that has a year or
\* is a short organization-like line (or at the end), and the details of
\* an entry being lines of its range
IsStopLine(ln) ==
    ReFound(Year4Re, ln) \/ (ReFound(ORG_HINT, Lower(ln)) /\ Len(Words(ln)) <= 6)
ScanSound(lines, log, work) ==
    /\ Len(work) = Len(log)
    /\ \A k \in 1..Len(log) :
          /\ log[k][1] \in 1..Len(lines)
          /\ IsDateLine(lines[log[k][1]])
          /\ log[k][2] \in (log[k][1] + 1)..(Len(lines) + 1)
          /\ log[k][2] <= Len(lines) => IsStopLine(lines[log[k][2]])
          /\ \A j \in (log[k][1] + 1)..(log[k][2] - 1) : ~IsStopLine(lines[j])
          /\ k < Len(log) => log[k][2] <= log[k + 1][1]
          /\ \A d \in 1..Len(work[k].details) :
                \E j \in (log[k][1] + 1)..(log[k][2] - 1) :
                    lines[j] = work[k].details[d]
ScanAdvances == (bpc = "parse" /\ bpc' = "parse") => scan_i' > scan_i

\* C28: parse_experience_blocks terminates on every input: each iteration
\* of its line scan strictly advances the line index, every entry starts at
\* a distinct date-bearing line, no line is a detail of more than one entry,
\* and the details of an entry stop at the next line that contains a year
\* or is a short organization-like line.
C28_ScanTerminates ==
    /\ (bpc = "parse") ~> (bpc = "fill")
    /\ [][ScanAdvances]_scanVars
    /\ [](bpc \in {"parse", "fill", "returned", "raised"} =>
            ScanSound(ExperienceLines(b_secs), scan_log, workExperience))

\* C28 witness: the scan of "2019-2021 / built the api for clients /
\* 2019-2021" has returned two entries, the first with the one detail line
C28_Witness ==
    /\ bpc = "fill"
    /\ ExperienceLines(b_secs) = <<P_Range, P_Built, P_Range>>
    /\ scan_log = <<<<1, 3>>, <<3, 4>>>>
    /\ workExperience[1].details = <<P_Built>>
    /\ workExperience = parse_experience_blocks(b_secs)

\* C21: a call of process_single_file whose text extraction, segmentation,
\* assembly and normalization all succeeded returns an envelope with status
\* "ok" that holds parsed, timings, resume_quality_score and
\* confidence_percentage; with use_cache the result is then in the cache
\* under the hash of the bytes and the model name, and a later call with the
\* same bytes and model name returns the cached record with timings
\* {"cached"} without running the pipeline again.
RanToTheEnd == ppc \in {"scored", "confidence_failed"}
C21_OkAndCached ==
    /\ RanToTheEnd =>
          /\ envelope.status = "ok"
          /\ {"parsed", "timings", "resume_quality_score",
              "confidence_percentage"} \subseteq DOMAIN envelope
          /\ envelope.parsed = final.data
          /\ use_cache =>
                /\ HasRow(hash_cache, compute_file_hash(raw_text, model_name))
                /\ RowOf(hash_cache,
                         compute_file_hash(raw_text, model_name)).parsed
                       = final.data
    /\ (use_cache /\ ppc \in {"text", "split", "assembled", "normalized"}) =>
          \* a call with use_cache runs the pipeline only for a file that
          \* is not in the cache
          ~HasRow(hash_cache, compute_file_hash(raw_text, model_name))
    /\ ppc = "cached" =>
          /\ envelope.timings = {"cached"}
          /\ envelope.parsed =
                RowOf(hash_cache,
                      compute_file_hash(raw_text, model_name)).parsed

-----------------------------------------------------------------------------
(***************************************************************************)
(* helpers/spacy_loader.py: concurrent calls of get_spacy_model            *)
(***************************************************************************)
ALLOWED_MODELS == {"en_core_web_sm", "en_core_web_lg", "en_core_web_trf"}
\* The names the callers ask for: none, two allowed ones and one that is
\* not allowed
NameArgs == {"", "en_core_web_sm", "en_core_web_lg", "fr_core_news_sm"}
NThreads == 3
Threads == 1..NThreads
NoModel == [kind |-> "none"]
Free == 0
\* The object the k-th successful spacy.load(name) creates
ModelObject(name, k) == [kind |-> "model", name |-> name, k |-> k]
\* An exception that leaves the call
ValueError == [kind |-> "ValueError"]
LoadError == [kind |-> "LoadError"]

InitLoad ==
    /\ tpc = [t \in Threads |-> "call"]
    /\ tname \in [Threads -> NameArgs]
    /\ tret = [t \in Threads |-> NoModel]
    /\ _models = [n \in ALLOWED_MODELS |-> NoModel]
    /\ _lock = Free
    /\ load_log = [n \in ALLOWED_MODELS |-> 0]
    /\ NormIdle
    /\ ScoreIdle
    /\ PipeIdle
    /\ BuildIdle
    /\ SkillIdle
    /\ EmbedIdle
    /\ ApiIdle

\* if name in _models  (under the lock, line 26)
CachedUnderLockNever(name) == FALSE
CachedUnderLock(name) == _models[name] # NoModel

\* if not name: name = "en_core_web_sm"; if name not in ALLOWED_MODELS:
\* raise ValueError  (lines 17-20)
DefaultName(name) == IF name = "" THEN "en_core_web_sm" ELSE name
Enter(t) ==
    /\ tpc[t] = "call"
    /\ tname' = [tname EXCEPT ![t] = DefaultName(tname[t])]
    /\ IF DefaultName(tname[t]) \notin ALLOWED_MODELS
       THEN /\ tret' = [tret EXCEPT ![t] = ValueError]
            /\ tpc' = [tpc EXCEPT ![t] = "done"]
       ELSE /\ tpc' = [tpc EXCEPT ![t] = "check"]
            /\ UNCHANGED tret
    /\ UNCHANGED <<_models, _lock, load_log,
                   pipeVars, normVars, scoreVars, buildVars, skillVars,
                   embedVars, apiVars>>

\* if name in _models: return _models[name]  (lines 22-23, no lock held)
FastPath(t) ==
    /\ tpc[t] = "check"
    /\ IF _models[tname[t]] # NoModel
       THEN /\ tret' = [tret EXCEPT ![t] = _models[tname[t]]]
            /\ tpc' = [tpc EXCEPT ![t] = "done"]
       ELSE /\ tpc' = [tpc EXCEPT ![t] = "acquire"]
            /\ UNCHANGED tret
    /\ UNCHANGED <<tname, _models, _lock, load_log,
                   pipeVars, normVars, scoreVars, buildVars, skillVars,
                   embedVars, apiVars>>

\* with _lock:  (line 25)
Acquire(t) ==
    /\ tpc[t] = "acquire"
    /\ _lock = Free
    /\ _lock' = t
    /\ tpc' = [tpc EXCEPT ![t] = "locked"]
    /\ UNCHANGED <<tname, tret, _models, load_log,
                   pipeVars, normVars, scoreVars, buildVars, skillVars,
                   embedVars, apiVars>>

\* if name in _models: return _models[name]  (lines 26-27); leaving the
\* with block releases the lock
Recheck(t) ==
    /\ tpc[t] = "locked"
    /\ IF CachedUnderLock(tname[t])
       THEN /\ tret' = [tret EXCEPT ![t] = _models[tname[t]]]
            /\ tpc' = [tpc EXCEPT ![t] = "done"]
            /\ _lock' = Free
       ELSE /\ tpc' = [tpc EXCEPT ![t] = "load"]
            /\ UNCHANGED <<tret, _lock>>
    /\ UNCHANGED <<tname, _models, load_log,
                   pipeVars, normVars, scoreVars, buildVars, skillVars,
                   embedVars, apiVars>>

\* nlp = spacy.load(name)  (line 29): the library returns a new object, or
\* raises when the model is not installed; the exception is re-raised
\* (lines 32-34) and the lock released
Load(t) ==
    /\ tpc[t] = "load"
    /\ \E installed \in BOOLEAN :
          IF installed
          THEN /\ load_log' = [load_log EXCEPT ![tname[t]] = @ + 1]
               /\ tret' = [tret EXCEPT
                             ![t] = ModelObject(tname[t], load_log[tname[t]] + 1)]
               /\ tpc' = [tpc EXCEPT ![t] = "store"]
               /\ UNCHANGED _lock
          ELSE /\ tret' = [tret EXCEPT ![t] = LoadError]
               /\ tpc' = [tpc EXCEPT ![t] = "done"]
               /\ _lock' = Free
               /\ UNCHANGED load_log
    /\ UNCHANGED <<tname, _models,
                   pipeVars, normVars, scoreVars, buildVars, skillVars,
                   embedVars, apiVars>>

\* _models[name] = nlp; return nlp  (lines 30-31)
Store(t) ==
    /\ tpc[t] = "store"
    /\ _models' = [_models EXCEPT ![tname[t]] = tret[t]]
    /\ tpc' = [tpc EXCEPT ![t] = "done"]
    /\ _lock' = Free
    /\ UNCHANGED <<tname, tret, load_log,
                   pipeVars, normVars, scoreVars, buildVars, skillVars,
                   embedVars, apiVars>>

NextLoad ==
    \E t \in Threads :
        Enter(t) \/ FastPath(t) \/ Acquire(t) \/ Recheck(t) \/ Load(t) \/ Store(t)

SpecLoad == InitLoad /\ [][NextLoad]_vars

\* A thread's call has returned a model object
Returned(t) == tpc[t] = "done" /\ tret[t] \notin {NoModel, ValueError, LoadError}

\* C20: under any interleaving of concurrent get_spacy_model(name) calls,
\* spacy.load runs at most once per successfully loaded model name and
\* every caller receives the same model object; a failed load caches
\* nothing and is re-raised to the caller; a name outside ALLOWED_MODELS
\* raises ValueError without loading anything.
C20_LoadedOnce ==
    /\ \A n \in ALLOWED_MODELS : load_log[n] <= 1
    /\ \A t, u \in Threads :
          (Returned(t) /\ Returned(u) /\ tname[t] = tname[u]) => tret[t] = tret[u]
    /\ \A n \in ALLOWED_MODELS :
          _models[n] # NoModel => (load_log[n] = 1 /\ _models[n] = ModelObject(n, 1))
    /\ \A t \in Threads :
          (tpc[t] = "done" /\ tret[t] = LoadError) =>
              (_lock # t /\ _models[tname[t]] \in {NoModel, ModelObject(tname[t], 1)})
    /\ \A t \in Threads :
          DefaultName(tname[t]) \notin ALLOWED_MODELS =>
              /\ tpc[t] \in {"call", "done"}
              /\ tpc[t] = "done" => tret[t] = ValueError
\* Three callers of one name: the load of the first failed, the second
\* loaded the model, the third got the same object
C20_Witness ==
    /\ \A t \in Threads : tpc[t] = "done" /\ tname[t] = "en_core_web_sm"
    /\ \E t, u, w \in Threads :
          /\ tret[t] = LoadError
          /\ t # u /\ u # w /\ Returned(u) /\ Returned(w)
          /\ tret[u] = tret[w]
    /\ load_log["en_core_web_sm"] = 1



-----------------------------------------------------------------------------
(***************************************************************************)
(* helpers/semantic_extraction.py: extract_skills and classify_skills      *)
(***************************************************************************)
\* The three characters the source file has in the split class after "/"
A_CIRC == "A_CIRC"      \* U+00E2
EURO == "EURO"          \* U+20AC
CENT == "CENT"          \* U+00A2
\* extract_skills: TECH and BAD (lines 477-494)
TECH ==
    {<<"p","y","t","h","o","n">>,
     <<"j","a","v","a">>,
     <<"j","a","v","a","s","c","r","i","p","t">>,
     <<"t","y","p","e","s","c","r","i","p","t">>,
     <<"c","+","+">>,
     <<"c","#">>,
     <<"s","q","l">>,
     <<"h","t","m","l">>,
     <<"c","s","s">>,
     <<"r","e","a","c","t">>,
     <<"a","n","g","u","l","a","r">>,
     <<"n","o","d","e">>,
     <<"n","o","d","e",".","j","s">>,
     <<"s","p","r","i","n","g">>,
     <<"s","p","r","i","n","g"," ","b","o","o","t">>,
     <<"h","i","b","e","r","n","a","t","e">>,
     <<"m","y","s","q","l">>,
     <<"p","o","s","t","g","r","e","s","q","l">>,
     <<"o","r","a","c","l","e">>,
     <<"m","o","n","g","o","d","b">>,
     <<"a","w","s">>,
     <<"a","z","u","r","e">>,
     <<"g","c","p">>,
     <<"d","o","c","k","e","r">>,
     <<"k","u","b","e","r","n","e","t","e","s">>,
     <<"g","i","t">>,
     <<"g","i","t","h","u","b">>,
     <<"s","v","n">>,
     <<"j","e","n","k","i","n","s">>,
     <<"l","i","n","u","x">>,
     <<"u","n","i","x">>,
     <<"r","e","s","t">>,
     <<"s","o","a","p">>,
     <<"a","p","i">>,
     <<"j","u","n","i","t">>,
     <<"p","y","t","e","s","t">>,
     <<"s","e","l","e","n","i","u","m">>,
     <<"c","y","b","e","r","s","e","c","u","r","i","t","y">>,
     <<"n","e","t","w","o","r","k"," ","s","e","c","u","r","i","t","y">>,
     <<"e","t","h","i","c","a","l"," ","h","a","c","k","i","n","g">>,
     <<"p","e","n","e","t","r","a","t","i","o","n"," ","t","e","s","t","i","n","g">>,
     <<"c","r","y","p","t","o","g","r","a","p","h","y">>}
SKILL_BAD ==
    {<<"u","n","i","v","e","r","s","i","t","y">>,
     <<"c","o","l","l","e","g","e">>,
     <<"g","r","a","d","u","a","t","i","o","n">>,
     <<"e","x","p","e","c","t","e","d">>,
     <<"p","r","o","f","i","l","e">>,
     <<"s","u","m","m","a","r","y">>,
     <<"e","x","p","e","r","i","e","n","c","e">>,
     <<"e","d","u","c","a","t","i","o","n">>,
     <<"i","n","d","i","a">>,
     <<"t","e","x","a","s">>,
     <<"m","i","s","s","o","u","r","i">>,
     <<"c","h","i","c","a","g","o">>,
     <<"t","a","m","i","l">>,
     <<"n","a","d","u">>}
\* classify_skills: CATEGORIES, in the order of the dict (lines 408-431)
CategoryNames ==
    <<"languages", "frameworks", "databases", "cloud", "tools", "testing",
      "security">>
CATEGORIES ==
    [c \in {CategoryNames[k] : k \in 1..Len(CategoryNames)} |->
        CASE c = "languages" ->
            {<<"P","y","t","h","o","n">>,
             <<"J","a","v","a">>,
             <<"J","a","v","a","S","c","r","i","p","t">>,
             <<"T","y","p","e","S","c","r","i","p","t">>,
             <<"C","+","+">>,
             <<"C","#">>,
             <<"S","Q","L">>}
          [] c = "frameworks" ->
            {<<"S","p","r","i","n","g">>,
             <<"S","p","r","i","n","g"," ","B","o","o","t">>,
             <<"D","j","a","n","g","o">>,
             <<"F","l","a","s","k">>,
             <<"R","e","a","c","t">>,
             <<"A","n","g","u","l","a","r">>,
             <<"N","o","d","e",".","j","s">>}
          [] c = "databases" ->
            {<<"M","y","S","Q","L">>,
             <<"P","o","s","t","g","r","e","S","Q","L">>,
             <<"O","r","a","c","l","e">>,
             <<"M","o","n","g","o","D","B">>,
             <<"D","B","2">>}
          [] c = "cloud" ->
            {<<"A","W","S">>,
             <<"A","z","u","r","e">>,
             <<"G","C","P">>}
          [] c = "tools" ->
            {<<"G","i","t">>,
             <<"G","i","t","H","u","b">>,
             <<"S","V","N">>,
             <<"D","o","c","k","e","r">>,
             <<"K","u","b","e","r","n","e","t","e","s">>,
             <<"J","e","n","k","i","n","s">>}
          [] c = "testing" ->
            {<<"J","U","n","i","t">>,
             <<"P","y","t","e","s","t">>,
             <<"S","e","l","e","n","i","u","m">>}
          [] c = "security" ->
            {<<"C","y","b","e","r","s","e","c","u","r","i","t","y">>,
             <<"N","e","t","w","o","r","k"," ","S","e","c","u","r","i","t","y">>,
             <<"E","t","h","i","c","a","l"," ","H","a","c","k","i","n","g">>,
             <<"P","e","n","e","t","r","a","t","i","o","n"," ","T","e","s","t","i","n","g">>,
             <<"C","r","y","p","t","o","g","r","a","p","h","y">>}]

\* re.search(r"\d{4}", s)
FourDigitsRe == Rep(Chr(Digit), 4, 4)
\* A chunk the loop of extract_skills goes on with (lines 500-511)
ChunkKept(chunk) ==
    /\ chunk # <<>>
    /\ Len(Words(chunk)) <= 6
    /\ ~ContainsAny(Lower(chunk), SKILL_BAD)
    /\ ~ReFound(FourDigitsRe, chunk)
    /\ ~Contains(chunk, <<"@">>)
    /\ ~Contains(chunk, <<"h","t","t","p">>)
\* skills.add(tech.title()) for every tech in the chunk (lines 513-515)
ChunkSkills(chunk) ==
    IF ChunkKept(chunk)
    THEN {Title(tech) : tech \in {t \in TECH : Contains(Lower(chunk), t)}}
    ELSE {}
SkillChunks(text) ==
    StripEach(SplitOn(text, {NL, ",", ";", "/", A_CIRC, EURO, CENT}))
\* extract_skills(text): sorted(skills), a list without repetition that the
\* set of its members determines; the model keeps the set
extract_skills(text) ==
    IF text = <<>> THEN {}
    ELSE UNION {ChunkSkills(SkillChunks(text)[k]) :
                    k \in 1..Len(SkillChunks(text))}

\* key = s.strip() of the skills classify_skills does not reject as junk
\* (lines 438-449)
AcceptedKeys(skills) ==
    {Strip(s) : s \in {x \in skills :
                          /\ x # <<>>
                          /\ Len(Words(Strip(x))) <= 3
                          /\ ~ReFound(FourDigitsRe, Strip(x))}}
\* if key in vocab
PlacedIn(key, cat) == key \in CATEGORIES[cat]
\* the first category, in the order of the dict, whose vocabulary has key
FirstCategory(key) ==
    IF \E j \in 1..Len(CategoryNames) : PlacedIn(key, CategoryNames[j])
    THEN CategoryNames[SetMin({j \in 1..Len(CategoryNames) :
                                  PlacedIn(key, CategoryNames[j])})]
    ELSE "other"
\* out before the empty categories are removed (lines 433-461)
Buckets(keys) ==
    [c \in DOMAIN CATEGORIES \cup {"other"} |->
        {key \in keys : FirstCategory(key) = c}]
\* return {k: v for k, v in out.items() if v}
NonEmptyBuckets(out) == [c \in {k \in DOMAIN out : out[k] # {}} |-> out[c]]
classify_skills(skills) == NonEmptyBuckets(Buckets(AcceptedKeys(skills)))

\* The chunks of a skills section the inputs are made of
K_Python == <<"P","y","t","h","o","n">>
K_AWS == <<"A","W","S">>
K_MySQL == <<"M","y","S","Q","L">>
K_JavaScript == <<"J","a","v","a","S","c","r","i","p","t">>
K_GitHub == <<"G","i","t","H","u","b">>
K_NodeJs == <<"N","o","d","e",".","j","s">>
K_SpringBoot == <<"S","p","r","i","n","g"," ","B","o","o","t">>
K_JUnit == <<"J","U","n","i","t">>
K_SQL == <<"S","Q","L">>
K_Docker == <<"D","o","c","k","e","r">>
K_Leadership == <<"L","e","a","d","e","r","s","h","i","p">>
K_Expected == <<"E","x","p","e","c","t","e","d"," ","2","0","2","4">>
K_Cpp == <<"C","+","+">>
SkillChunkPool ==
    {K_Python,
     K_AWS,
     K_MySQL,
     K_JavaScript,
     K_GitHub,
     K_NodeJs,
     K_SpringBoot,
     K_JUnit,
     K_SQL,
     K_Docker,
     K_Leadership,
     K_Expected,
     K_Cpp}
MaxChunks == 2
\* A skills section of one to MaxChunks chunks separated by ", "
ChunkLists == UNION {[1..n -> SkillChunkPool] : n \in 1..MaxChunks}
SkillTexts == {Join(cl, <<",", " ">>) : cl \in ChunkLists}
SkillLabels == {"skills", "technologies", "summary"}
SkillInputs == {<<<<lab, t>>>> : lab \in SkillLabels, t \in SkillTexts}

\* skills_text = canonical_sections.get("skills") or
\* canonical_sections.get("technical skills") or
\* canonical_sections.get("technologies") or "" (lines 714-719)
SkillsText(secs) ==
    IF SecGet(secs, "skills") # <<>> THEN SecGet(secs, "skills")
    ELSE IF SecGet(secs, "technical skills") # <<>>
         THEN SecGet(secs, "technical skills")
    ELSE SecGet(secs, "technologies")

InitSkills ==
    /\ skpc = "start"
    /\ sk_secs \in SkillInputs
    /\ clean_skills = {}
    /\ skills_by_category = <<>>
    /\ PipeIdle
    /\ NormIdle
    /\ ScoreIdle
    /\ BuildIdle
    /\ LoadIdle
    /\ EmbedIdle
    /\ ApiIdle

\* clean_skills = extract_skills(skills_text) (line 721)
ExtractSkills ==
    /\ skpc = "start"
    /\ clean_skills' = extract_skills(SkillsText(sk_secs))
    /\ skpc' = "extracted"
    /\ UNCHANGED <<sk_secs, skills_by_category,
                   pipeVars, normVars, scoreVars, buildVars, loadVars,
                   embedVars, apiVars>>

\* parsed["skills_by_category"] = classify_skills(clean_skills) (line 723)
ClassifySkills ==
    /\ skpc = "extracted"
    /\ skills_by_category' = classify_skills(clean_skills)
    /\ skpc' = "classified"
    /\ UNCHANGED <<sk_secs, clean_skills,
                   pipeVars, normVars, scoreVars, buildVars, loadVars,
                   embedVars, apiVars>>

NextSkills == ExtractSkills \/ ClassifySkills
SpecSkills == InitSkills /\ [][NextSkills]_vars

\* A token names a technology of a category when it is one of the
\* category's vocabulary up to the case of its letters
NamesTechOf(tok, cat) == \E v \in CATEGORIES[cat] : Lower(tok) = Lower(v)
BucketsOf(out, tok) == {c \in DOMAIN out : tok \in out[c]}

\* C27: every skill token of extract_skills that names a technology of a
\* category vocabulary is placed by classify_skills in that category and
\* not in "other"; each accepted token is in exactly one bucket, and a
\* category without members is absent from the output.
C27_NamedTechInCategory ==
    skpc = "classified" =>
        /\ \A tok \in clean_skills : \A cat \in DOMAIN CATEGORIES :
              NamesTechOf(tok, cat) =>
                  BucketsOf(skills_by_category, tok) = {cat}
        /\ \A tok \in AcceptedKeys(clean_skills) :
              Cardinality(BucketsOf(skills_by_category, tok)) = 1
        /\ \A c \in DOMAIN skills_by_category : skills_by_category[c] # {}

-----------------------------------------------------------------------------
(***************************************************************************)
(* helpers/section_segmentation.py: _init_embedding_model and              *)
(* _score_and_label_heading, called by the threads of one process          *)
(* (api.py parse_batch: a ThreadPoolExecutor for at most 4 files).  The    *)
(* module globals have no lock; every statement that reads or writes one   *)
(* is a step.                                                              *)
(***************************************************************************)
NWorkers == 2
Workers == 1..NWorkers
\* None; a SentenceTransformer object is named by the worker that built it
None == 0

\* lines 25-26: _MODEL = None, _EMBEDDINGS = None; _CANONICAL_LABELS is not
\* bound before the first initialization, and no model object has the
\* attribute _labels before line 56 sets it
InitEmbed ==
    /\ wpc = [w \in Workers |-> "call"]
    /\ wres = [w \in Workers |-> "running"]
    /\ _MODEL = None
    /\ _EMBEDDINGS = None
    /\ _CANONICAL_LABELS = "unbound"
    /\ _labels = [m \in Workers |-> "unset"]
    /\ PipeIdle
    /\ NormIdle
    /\ ScoreIdle
    /\ BuildIdle
    /\ LoadIdle
    /\ SkillIdle
    /\ ApiIdle

Goto(w, pos) == wpc' = [wpc EXCEPT ![w] = pos]
Finish(w, res) ==
    /\ wpc' = [wpc EXCEPT ![w] = "done"]
    /\ wres' = [wres EXCEPT ![w] = res]

\* line 42: if _MODEL is not None: return
InitCheck(w) ==
    /\ wpc[w] = "call"
    /\ IF _MODEL # None THEN Goto(w, "check") ELSE Goto(w, "construct")
    /\ UNCHANGED <<wres, _MODEL, _EMBEDDINGS, _CANONICAL_LABELS, _labels,
                   pipeVars, normVars, scoreVars, buildVars, loadVars,
                   skillVars, apiVars>>

\* lines 45-46: the import and _MODEL = SentenceTransformer(...); the
\* library builds the model or raises
Construct(w) ==
    /\ wpc[w] = "construct"
    /\ \E built \in BOOLEAN :
          IF built
          THEN _MODEL' = w /\ Goto(w, "encode")
          ELSE UNCHANGED _MODEL /\ Goto(w, "except")
    /\ UNCHANGED <<wres, _EMBEDDINGS, _CANONICAL_LABELS, _labels,
                   pipeVars, normVars, scoreVars, buildVars, loadVars,
                   skillVars, apiVars>>

\* line 53: _EMBEDDINGS = _MODEL.encode(texts, ...); the global is read
\* again, None has no encode, and the library encodes or raises
EncodeCanonical(w) ==
    /\ wpc[w] = "encode"
    /\ \E encoded \in BOOLEAN :
          IF _MODEL # None /\ encoded
          THEN _EMBEDDINGS' = _MODEL /\ Goto(w, "labels")
          ELSE UNCHANGED _EMBEDDINGS /\ Goto(w, "except")
    /\ UNCHANGED <<wres, _MODEL, _CANONICAL_LABELS, _labels,
                   pipeVars, normVars, scoreVars, buildVars, loadVars,
                   skillVars, apiVars>>

\* line 54: _CANONICAL_LABELS = [lbl for ...]
SetLabels(w) ==
    /\ wpc[w] = "labels"
    /\ _CANONICAL_LABELS' = "labels"
    /\ Goto(w, "store")
    /\ UNCHANGED <<wres, _MODEL, _EMBEDDINGS, _labels,
                   pipeVars, normVars, scoreVars, buildVars, loadVars,
                   skillVars, apiVars>>

\* line 56: _MODEL._labels = _CANONICAL_LABELS, both globals read again
StoreLabels(w) ==
    /\ wpc[w] = "store"
    /\ IF _MODEL # None
       THEN /\ _labels' = [_labels EXCEPT ![_MODEL] = _CANONICAL_LABELS]
            /\ Goto(w, "check")
       ELSE /\ UNCHANGED _labels
            /\ Goto(w, "except")
    /\ UNCHANGED <<wres, _MODEL, _EMBEDDINGS, _CANONICAL_LABELS,
                   pipeVars, normVars, scoreVars, buildVars, loadVars,
                   skillVars, apiVars>>

\* line 58: except Exception: _MODEL = None
ExceptModel(w) ==
    /\ wpc[w] = "except"
    /\ _MODEL' = None
    /\ Goto(w, "except_embeddings")
    /\ UNCHANGED <<wres, _EMBEDDINGS, _CANONICAL_LABELS, _labels,
                   pipeVars, normVars, scoreVars, buildVars, loadVars,
                   skillVars, apiVars>>

\* line 59: _EMBEDDINGS = None
ExceptEmbeddings(w) ==
    /\ wpc[w] = "except_embeddings"
    /\ _EMBEDDINGS' = None
    /\ Goto(w, "except_labels")
    /\ UNCHANGED <<wres, _MODEL, _CANONICAL_LABELS, _labels,
                   pipeVars, normVars, scoreVars, buildVars, loadVars,
                   skillVars, apiVars>>

\* line 60: _CANONICAL_LABELS = []
ExceptLabels(w) ==
    /\ wpc[w] = "except_labels"
    /\ _CANONICAL_LABELS' = "empty"
    /\ Goto(w, "check")
    /\ UNCHANGED <<wres, _MODEL, _EMBEDDINGS, _labels,
                   pipeVars, normVars, scoreVars, buildVars, loadVars,
                   skillVars, apiVars>>

\* lines 68-69: if not _MODEL: return None, 0.0
CheckModel(w) ==
    /\ wpc[w] = "check"
    /\ IF _MODEL = None
       THEN Finish(w, "fallback")
       ELSE Goto(w, "encode_heading") /\ UNCHANGED wres
    /\ UNCHANGED <<_MODEL, _EMBEDDINGS, _CANONICAL_LABELS, _labels,
                   pipeVars, normVars, scoreVars, buildVars, loadVars,
                   skillVars, apiVars>>

\* line 71: q_emb = _MODEL.encode(heading_text, ...); AttributeError when
\* the global is None by now
EncodeHeading(w) ==
    /\ wpc[w] = "encode_heading"
    /\ IF _MODEL = None
       THEN Finish(w, "model_is_none")
       ELSE Goto(w, "cos_sim") /\ UNCHANGED wres
    /\ UNCHANGED <<_MODEL, _EMBEDDINGS, _CANONICAL_LABELS, _labels,
                   pipeVars, normVars, scoreVars, buildVars, loadVars,
                   skillVars, apiVars>>

\* lines 72-74: sims = util.cos_sim(q_emb, _EMBEDDINGS) and its argmax;
\* cos_sim raises on None
CosSim(w) ==
    /\ wpc[w] = "cos_sim"
    /\ IF _EMBEDDINGS = None
       THEN Finish(w, "embeddings_unset")
       ELSE Goto(w, "label") /\ UNCHANGED wres
    /\ UNCHANGED <<_MODEL, _EMBEDDINGS, _CANONICAL_LABELS, _labels,
                   pipeVars, normVars, scoreVars, buildVars, loadVars,
                   skillVars, apiVars>>

\* lines 75-77: label_token = _MODEL._labels[best_idx]; AttributeError on
\* None and on a model without the attribute, IndexError on an empty list
LabelLookup(w) ==
    /\ wpc[w] = "label"
    /\ IF _MODEL = None THEN Finish(w, "model_is_none")
       ELSE IF _labels[_MODEL] # "labels" THEN Finish(w, "labels_unset")
       ELSE Finish(w, "label")
    /\ UNCHANGED <<_MODEL, _EMBEDDINGS, _CANONICAL_LABELS, _labels,
                   pipeVars, normVars, scoreVars, buildVars, loadVars,
                   skillVars, apiVars>>

NextEmbed ==
    \E w \in Workers :
        \/ InitCheck(w)
        \/ Construct(w)
        \/ EncodeCanonical(w)
        \/ SetLabels(w)
        \/ StoreLabels(w)
        \/ ExceptModel(w)
        \/ ExceptEmbeddings(w)
        \/ ExceptLabels(w)
        \/ CheckModel(w)
        \/ EncodeHeading(w)
        \/ CosSim(w)
        \/ LabelLookup(w)
SpecEmbed == InitEmbed /\ [][NextEmbed]_vars

\* C29: under any interleaving of concurrent calls in one process, no
\* thread uses the embedding model before its canonical embeddings and
\* labels are set, and no thread dereferences a model handle that another
\* thread's failed initialization has reset to None.
C29_SafeConcurrentUse ==
    \A w \in Workers :
        wres[w] \notin {"embeddings_unset", "labels_unset", "model_is_none"}

-----------------------------------------------------------------------------
(***************************************************************************)
(* api.py: parse_resume, the handler of POST /parse                        *)
(***************************************************************************)
\* len(contents) of the uploads tried: empty, shorter than 4 bytes, longer
UploadSizes == {0, 3, 64}
MinUploadSize == 4
\* What extract_text_from_bytes gives for an upload: the libraries behind
\* it (PDF, DOCX, OCR) decide; nothing, blanks, or the text of a resume
ApiTexts ==
    {<<>>, <<" ", " ">>} \cup
    {Document(o \o e \o w) :
        o \in Openings,
        e \in {<<>>, <<Para(<<L_Education, L_BSc>>)>>},
        w \in {<<>>, <<L_Experience, Para(<<L_Globex, L_Led>>)>>}}
MinTextLen == 3

\* A local variable of the handler: not assigned yet, or bound to a value
UnboundLocal == [bound |-> FALSE]
Bound(v) == [bound |-> TRUE, value |-> v]
\* {} (line 95)
EmptyMap == [f \in {} |-> 0]
NoResponse == [http |-> 0]
\* raise HTTPException(status_code=..., detail=...)
HttpError(code, detail) == [http |-> code, detail |-> detail]

InitApi ==
    /\ apc = "call"
    /\ a_size \in UploadSizes
    /\ include_confidence \in BOOLEAN
    /\ save \in BOOLEAN
    /\ a_text = <<>>
    /\ normalized = Threw
    /\ confidence_map = EmptyMap
    /\ confidence_bundle = UnboundLocal
    /\ response_payload = UnboundLocal
    /\ response = NoResponse
    /\ PipeIdle
    /\ NormIdle
    /\ ScoreIdle
    /\ BuildIdle
    /\ LoadIdle
    /\ SkillIdle
    /\ EmbedIdle

\* lines 76-78: contents = await file.read(); an empty or tiny upload is
\* answered with 422 (the HTTPException passes the handler at line 141)
ReadUpload ==
    /\ apc = "call"
    /\ IF a_size < MinUploadSize
       THEN /\ response' = HttpError(422, "Empty or invalid file")
            /\ apc' = "responded"
       ELSE /\ UNCHANGED response
            /\ apc' = "extract"
    /\ UNCHANGED <<a_size, a_text, include_confidence, save, normalized,
                   confidence_map, confidence_bundle, response_payload,
                   pipeVars, normVars, scoreVars, buildVars, loadVars,
                   skillVars, embedVars>>

\* lines 82-87: raw_text = extract_text_from_bytes(...); no text, or fewer
\* than 3 characters after strip, is answered with 422
ExtractText ==
    /\ apc = "extract"
    /\ \E t \in ApiTexts :
          /\ a_text' = t
          /\ IF t = <<>> \/ Len(Strip(t)) < MinTextLen
             THEN /\ response' = HttpError(422, "Could not extract text")
                  /\ apc' = "responded"
             ELSE /\ UNCHANGED response
                  /\ apc' = "parse"
    /\ UNCHANGED <<a_size, include_confidence, save, normalized,
                   confidence_map, confidence_bundle, response_payload,
                   pipeVars, normVars, scoreVars, buildVars, loadVars,
                   skillVars, embedVars>>

\* normalize_schema(assemble_full_schema(raw_text, sections)) of lines
\* 91-92; assemble_full_schema is called without nlp
NormalizedOf(text, mode, oracle) ==
    normalize_schema(
        assemble_full_schema(text, split_into_sections(text, mode), "off"),
        oracle)

\* lines 90-92: the three pipeline calls; an exception of one of them
\* reaches the handler at lines 143-145 and is answered with 500
ParseText ==
    /\ apc = "parse"
    /\ \E m \in EmbedModes, o \in {"none", "parses"} :
          IF SplitRaises(a_text, m)
          THEN /\ response' = HttpError(500, "split_into_sections")
               /\ apc' = "responded"
               /\ UNCHANGED normalized
          ELSE IF NormalizedOf(a_text, m, o).raised
          THEN /\ response' = HttpError(500, "normalize_schema")
               /\ apc' = "responded"
               /\ UNCHANGED normalized
          ELSE /\ normalized' = NormalizedOf(a_text, m, o)
               /\ apc' = "confidence"
               /\ UNCHANGED response
    /\ UNCHANGED <<a_size, a_text, include_confidence, save,
                   confidence_map, confidence_bundle, response_payload,
                   pipeVars, normVars, scoreVars, buildVars, loadVars,
                   skillVars, embedVars>>

\* d.get(key, default) of a dict given as a function
GetOr(d, key, default) == IF key \in DOMAIN d THEN d[key] ELSE default

\* lines 95-104: confidence_map = {}; with include_confidence the call
\* confidence_scores(normalized, raw_text) and the two reads of its result;
\* an exception leaves confidence_bundle unassigned and sets
\* confidence_map = {} (lines 102-104)
ComputeConfidence ==
    /\ apc = "confidence"
    /\ IF ~include_confidence
       THEN /\ confidence_map' = EmptyMap
            /\ UNCHANGED confidence_bundle
       ELSE IF CallRaises(ConfidenceArgs, ConfidenceParams)
       THEN /\ confidence_map' = EmptyMap
            /\ UNCHANGED confidence_bundle
       ELSE /\ confidence_bundle' = Bound(confidence_scores(normalized.data))
            /\ confidence_map' =
                GetOr(confidence_scores(normalized.data), "raw_scores",
                      EmptyMap)
    /\ apc' = "payload"
    /\ UNCHANGED <<a_size, a_text, include_confidence, save, normalized,
                   response_payload, response,
                   pipeVars, normVars, scoreVars, buildVars, loadVars,
                   skillVars, embedVars>>

\* lines 109-113: resume_quality = 0.0, or the mean of the numeric values
\* of confidence_map times 100, in hundredths
RECURSIVE SumOf(_, _)
SumOf(cmap, keys) ==
    IF keys = {} THEN 0
    ELSE cmap[CHOOSE k \in keys : TRUE]
           + SumOf(cmap, keys \ {CHOOSE k \in keys : TRUE})
ResumeQuality(cmap) ==
    IF DOMAIN cmap = {} THEN 0
    ELSE (SumOf(cmap, DOMAIN cmap) * 100 * 100) \div Cardinality(DOMAIN cmap)

\* lines 115-125: the payload; with include_confidence the handler reads
\* confidence_bundle["raw_scores"] and ["percentage_scores"]: a local that
\* was never assigned raises UnboundLocalError, a result without the key
\* raises KeyError, and the handler at lines 143-145 answers with 500
BuildPayload ==
    /\ apc = "payload"
    /\ IF include_confidence /\ ~confidence_bundle.bound
       THEN /\ response' = HttpError(500, "UnboundLocalError")
            /\ apc' = "responded"
            /\ UNCHANGED response_payload
       ELSE IF include_confidence
               /\ ~({"raw_scores", "percentage_scores"}
                        \subseteq DOMAIN confidence_bundle.value)
       THEN /\ response' = HttpError(500, "KeyError")
            /\ apc' = "responded"
            /\ UNCHANGED response_payload
       ELSE /\ response_payload' =
                Bound([status |-> "ok",
                       parsed |-> normalized.data,
                       resume_quality_score |-> ResumeQuality(confidence_map),
                       confidence_raw |->
                           IF include_confidence
                           THEN confidence_bundle.value["raw_scores"]
                           ELSE EmptyMap,
                       db |-> "not saved"])
            /\ apc' = "save"
            /\ UNCHANGED response
    /\ UNCHANGED <<a_size, a_text, include_confidence, save, normalized,
                   confidence_map, confidence_bundle,
                   pipeVars, normVars, scoreVars, buildVars, loadVars,
                   skillVars, embedVars>>

\* lines 128-140: with save the record is stored, or the error of the
\* store is put in the payload; the payload is returned with 200
SaveAndReturn ==
    /\ apc = "save"
    /\ \E stored \in BOOLEAN :
          response' =
              [http |-> 200,
               payload |->
                   [response_payload.value EXCEPT
                       !.db = IF ~save THEN "not saved"
                              ELSE IF stored THEN "db_id"
                              ELSE "db_save_error"]]
    /\ apc' = "responded"
    /\ UNCHANGED <<a_size, a_text, include_confidence, save, normalized,
                   confidence_map, confidence_bundle, response_payload,
                   pipeVars, normVars, scoreVars, buildVars, loadVars,
                   skillVars, embedVars>>

NextApi ==
    \/ ReadUpload
    \/ ExtractText
    \/ ParseText
    \/ ComputeConfidence
    \/ BuildPayload
    \/ SaveAndReturn
SpecApi == InitApi /\ [][NextApi]_vars

\* The confidence calculation of the request failed: the call raised, or
\* its result has no "raw_scores"
ConfidenceFailed ==
    \/ ~confidence_bundle.bound
    \/ "raw_scores" \notin DOMAIN confidence_bundle.value

\* C30: POST /parse with include_confidence=true never fails because of
\* the confidence calculation: when confidence_scores raises or returns a
\* result without "raw_scores", the answer still has status "ok" and the
\* parsed record, with an empty confidence map, and is not an HTTP 500.
C30_ConfidenceNeverFails ==
    (/\ apc = "responded"
     /\ include_confidence
     /\ ~normalized.raised
     /\ ConfidenceFailed) =>
        /\ response.http = 200
        /\ response.payload.status = "ok"
        /\ response.payload.parsed = normalized.data
        /\ response.payload.confidence_raw = EmptyMap

=============================================================================
